---------------------------- MODULE Spec2Model ----------------------------
(***************************************************************************)
(* A model of the blocktest voxel server and client: the World (chunk map, *)
(* load anchors, persistence), the PlayerSessionManager, the gRPC handlers *)
(* of Server, and the asynchronous chunk-request pool of Client.           *)
(*                                                                         *)
(* Positions are triples <<x, y, z>>.  A precise (double) coordinate is    *)
(* represented by the integer number of halves it holds, so that the floor *)
(* taken by toAbsoluteBlock is a real conversion.                          *)
(***************************************************************************)
EXTENDS Integers, Sequences, FiniteSets, TLC

(***************************************************************************)
(* Bounds of the model.                                                    *)
(***************************************************************************)
\* Side of a chunk in blocks (CHUNK_WIDTH = CHUNK_HEIGHT = CHUNK_DEPTH, set in
\* chunkdims.h; scaled down here).
ChunkSide == 2
\* loadAnchorRadiusInChunks_ of the modelled World.
Radius == 1
\* How many player entities the registry creates in one run.
MaxEntities == 2
\* How many handler threads of the gRPC server run at the same time.
MaxHandlers == 2
\* kMaxInflightRequests of the client, scaled down (64 in src/src/client.h:92).
MaxInflight == 1
\* The size at which cacheChunk starts to evict, scaled down (100 in the source).
MaxCached == 2
\* How many layers a ChainOverlay of the model holds at most.
MaxLayers == 2
\* Bits of a chunk coordinate (int32_t) and of a chunk-local coordinate
\* (uint32_t), scaled down from 32.
CoordBits == 5

(***************************************************************************)
(* Program constants.                                                      *)
(***************************************************************************)
\* PlayerSessionManager::SESSION_TIMEOUT, in seconds.
SESSION_TIMEOUT == 5

\* enum class Block : uint8_t
Empty == 0
Grass == 2
Stone == 3

\* The block ids the requests of the model carry.
Blocks == {Empty, Grass, Stone}

None == "none"

(***************************************************************************)
(* Coordinate algebra (position.h).                                        *)
(***************************************************************************)
\* C++ integer division and remainder: truncation toward zero (b > 0).
TruncDiv(a, b) == IF a >= 0 THEN a \div b ELSE -((-a) \div b)
TruncRem(a, b) == a - b * TruncDiv(a, b)

\* floor_div, were it to keep the quotient of the division as it is.
floor_div_truncating(a, b) == TruncDiv(a, b)

floor_div(a, b) ==
    LET q == TruncDiv(a, b)
        r == TruncRem(a, b)
    IN  IF r # 0 /\ ((r > 0) # (b > 0)) THEN q - 1 ELSE q

\* Precise -> Block: floor of each component (a precise coordinate is a count
\* of halves; \div rounds toward minus infinity as std::floor does).
toAbsoluteBlock(p) == << p[1] \div 2, p[2] \div 2, p[3] \div 2 >>

\* static_cast to std::int32_t and to std::uint32_t: the value modulo 2^bits,
\* in the range of the type.
static_cast_int32(v) == ((v + 2 ^ (CoordBits - 1)) % (2 ^ CoordBits)) - 2 ^ (CoordBits - 1)
static_cast_uint32(v) == v % (2 ^ CoordBits)

\* Block -> Chunk: floor division by the chunk dimensions, narrowed to int32.
toAbsoluteChunk(b) ==
    << static_cast_int32(floor_div(b[1], ChunkSide)),
       static_cast_int32(floor_div(b[2], ChunkSide)),
       static_cast_int32(floor_div(b[3], ChunkSide)) >>
\* The assertions of toAbsoluteChunk: each quotient fits in int32.
toAbsoluteChunk_asserts(b) ==
    \A i \in 1 .. 3 : static_cast_int32(floor_div(b[i], ChunkSide)) = floor_div(b[i], ChunkSide)

chunkOrigin(c) == << c[1] * ChunkSide, c[2] * ChunkSide, c[3] * ChunkSide >>

\* Block -> ChunkLocal, given the chunk that holds it.
toChunkLocal(b, c) ==
    LET o == chunkOrigin(c)
    IN  << static_cast_uint32(b[1] - o[1]), static_cast_uint32(b[2] - o[2]),
           static_cast_uint32(b[3] - o[3]) >>
\* The assertions of toChunkLocal: the block lies within the chunk.
toChunkLocal_asserts(b, c) ==
    \A i \in 1 .. 3 : b[i] - chunkOrigin(c)[i] >= 0 /\ b[i] - chunkOrigin(c)[i] < ChunkSide

\* Chunk + ChunkLocal -> Block.
toAbsoluteBlockIn(c, l) ==
    LET origin == chunkOrigin(c) IN << origin[1] + l[1], origin[2] + l[2], origin[3] + l[3] >>

(***************************************************************************)
(* Chunk buffer (chunkspan.h / chunkspan.cpp).                             *)
(***************************************************************************)
strideY == ChunkSide
strideZ == ChunkSide * ChunkSide
CHUNK_BLOCK_COUNT == ChunkSide * ChunkSide * ChunkSide
CellIndices == 0 .. (CHUNK_BLOCK_COUNT - 1)

LocalIndex(l) == l[1] + l[2] * strideY + l[3] * strideZ

\* ChunkSpan::getBlock / ChunkSpan::setBlock on a storage array.
getBlock(storage, l) == storage[LocalIndex(l)]
setBlock(storage, l, block) == [storage EXCEPT ![LocalIndex(l)] = block]

\* ChunkSpan(pos): the storage array is left as the allocation holds it; fill is
\* the value its cells read as.
NewChunkSpan(fill) == [i \in CellIndices |-> fill]

\* The local position of a storage index.
LocalOfIndex(i) ==
    << i % strideY, (i \div strideY) % ChunkSide, i \div strideZ >>

\* HeightmapChunkTransform(height, fillBlock)::apply, the transform of the
\* flat-world generator: every cell whose global y is below height is filled.
GeneratorHeight == 1
HeightmapApply(storage, c) ==
    [i \in CellIndices |->
        IF chunkOrigin(c)[2] + LocalOfIndex(i)[2] < GeneratorHeight
            THEN Grass ELSE storage[i]]

\* ChunkSpan::serialize: version, position, the count of non-Empty cells, then
\* (index, value) of every non-Empty cell in index order.
RECURSIVE SparseEntries(_, _)
SparseEntries(storage, i) ==
    IF i >= CHUNK_BLOCK_COUNT THEN << >>
    ELSE IF storage[i] # Empty
         THEN << <<i, storage[i]>> >> \o SparseEntries(storage, i + 1)
         ELSE SparseEntries(storage, i + 1)

CHUNKSPAN_SPARSE_SERIALIZATION_VERSION == 1
\* The first loop of serialize: the number of non-Empty cells.
nonempty_count(storage) == Cardinality({ i \in CellIndices : storage[i] # Empty })

SerializeChunk(c, storage) ==
    [version |-> CHUNKSPAN_SPARSE_SERIALIZATION_VERSION,
     position |-> c,
     nonempty_count |-> nonempty_count(storage),
     entries  |-> SparseEntries(storage, 0)]

(***************************************************************************)
(* Persistence (sqlite_chunk_persistence.cpp, statefulchunkoverlay.cpp).   *)
(***************************************************************************)
\* StatefulChunkOverlay::packKey
packKey(l) == l[1] * 65536 + l[2] * 256 + l[3]

\* saveChunk: the overlay built from the non-Empty cells of the chunk, as the
\* set of (packed key, block) entries that serialize() writes.
SaveBlob(storage) ==
    { << packKey(LocalOfIndex(i)), storage[i] >> : i \in {j \in CellIndices : storage[j] # Empty} }

\* loadChunk: an Empty buffer with the entries of the overlay applied.
LoadBlob(blob) ==
    [i \in CellIndices |->
        IF \E e \in blob : e[1] = packKey(LocalOfIndex(i))
            THEN (CHOOSE e \in blob : e[1] = packKey(LocalOfIndex(i)))[2]
            ELSE Empty]

\* The header of a serialized overlay: kMagic ("SCO1" in ASCII), kVersion and
\* kReserved.
kMagic == << 83, 67, 79, 49 >>
kVersion == 1
kReserved == 0
\* sizeof(Block): Block is an enum class over uint8_t.
sizeofBlock == 1

\* write_u32_le, were it to write the most significant byte first.
write_u32_be(v) ==
    << (v \div 16777216) % 256, (v \div 65536) % 256, (v \div 256) % 256, v % 256 >>

\* write_u16_le, write_u32_le, read_u16_le, read_u32_le: little-endian bytes.
write_u16_le(v) == << v % 256, (v \div 256) % 256 >>
write_u32_le(v) ==
    << v % 256, (v \div 256) % 256, (v \div 65536) % 256, (v \div 16777216) % 256 >>
read_u16_le(p) == p[1] + p[2] * 256
read_u32_le(p) == p[1] + p[2] * 256 + p[3] * 65536 + p[4] * 16777216

\* StatefulChunkOverlay::setBlock on blocks_ (packed key -> block): an all-zero
\* block erases the entry, any other block is stored under the key.
overlaySetBlock(blocks, l, block) ==
    LET key == packKey(l)
    IN  IF block = 0
            THEN [k \in DOMAIN blocks \ {key} |-> blocks[k]]
            ELSE [k \in DOMAIN blocks \cup {key} |-> IF k = key THEN block ELSE blocks[k]]

\* serialize, were it to leave the keys in the order the map yields them.
sortKeys_asIterated(keys) == keys

\* std::sort of the keys: the same keys, ascending.
sortKeys(keys) ==
    LET RECURSIVE ascending(_)
        ascending(S) == IF S = {} THEN << >>
                        ELSE LET m == CHOOSE k \in S : \A j \in S : k <= j
                             IN  << m >> \o ascending(S \ {m})
    IN  ascending({ keys[i] : i \in 1 .. Len(keys) })

\* The orders in which iterating an unordered_map with these keys can yield
\* them: the standard fixes none.
IterationOrders(K) ==
    { o \in [1 .. Cardinality(K) -> K] : \A i, j \in 1 .. Cardinality(K) : o[i] = o[j] => i = j }

\* StatefulChunkOverlay::serialize: the keys as the map yields them (iterated),
\* sorted ascending, the header, then one entry (key as u32, the block's byte)
\* for each key that holds a block.
serialize(blocks, iterated) ==
    LET keys == sortKeys(iterated)
        blockSize == sizeofBlock
        count == Len(keys)
        RECURSIVE entries(_)
        entries(ks) ==
            IF ks = << >> THEN << >>
            ELSE (IF Head(ks) \notin DOMAIN blocks \/ blocks[Head(ks)] = 0
                      THEN << >>
                      ELSE write_u32_le(Head(ks)) \o << blocks[Head(ks)] >>)
                 \o entries(Tail(ks))
    IN  kMagic \o << kVersion, kReserved >> \o write_u16_le(blockSize)
            \o write_u32_le(count) \o entries(keys)

\* expectedSize, were it to count a header of 14 bytes.
expectedSize_14(count) == 14 + count * (4 + sizeofBlock)

\* The size deserialize expects of a payload that announces count entries.
expectedSize(count) == (4 + 1 + 1 + 2 + 4) + count * (4 + sizeofBlock)

\* std::nullopt, and an overlay holding blocks.
nullopt == [has_value |-> FALSE, blocks |-> << >>]

\* StatefulChunkOverlay::deserialize: the checks of the header in the order of
\* the code, then the entries; emplace keeps the first entry of a key, and an
\* all-zero block is skipped.
deserialize(data) ==
    LET headerSize == 4 + 1 + 1 + 2 + 4
        blockSize == read_u16_le(SubSeq(data, 7, 8))
        count == read_u32_le(SubSeq(data, 9, 12))
        entrySize == 4 + blockSize
        keyAt(i) == read_u32_le(SubSeq(data, headerSize + i * entrySize + 1,
                                             headerSize + i * entrySize + 4))
        blockAt(i) == data[headerSize + i * entrySize + 5]
        RECURSIVE read(_, _)
        read(i, blocks) ==
            IF i >= count THEN blocks
            ELSE IF blockAt(i) # 0 /\ keyAt(i) \notin DOMAIN blocks
                THEN read(i + 1, [k \in DOMAIN blocks \cup {keyAt(i)} |->
                                     IF k = keyAt(i) THEN blockAt(i) ELSE blocks[k]])
                ELSE read(i + 1, blocks)
    IN  IF Len(data) < headerSize THEN nullopt
        ELSE IF SubSeq(data, 1, 4) # kMagic THEN nullopt
        ELSE IF data[5] # kVersion THEN nullopt
        ELSE IF blockSize # sizeofBlock THEN nullopt
        ELSE IF Len(data) # expectedSize(count) THEN nullopt
        ELSE [has_value |-> TRUE, blocks |-> read(0, << >>)]


(***************************************************************************)
(* Inputs of the model: the values requests and callbacks carry.           *)
(***************************************************************************)
\* Block positions the loadAnchors_ callback returns.
AnchorOrigin == << 0, 0, 0 >>
AnchorFar == << 4 * ChunkSide, 0, 0 >>
AnchorSets == { {AnchorOrigin}, {AnchorFar} }

\* Precise positions (in halves) of players: (-0.5, 0.5, 0.5), whose block is
\* (-1, 0, 0), and a position eight chunks east of the origin.
PreciseNear == << -1, 1, 1 >>
PreciseEast == << 2 * (8 * ChunkSide) + 1, 1, 1 >>
PrecisePositions == { PreciseNear, PreciseEast }

\* Block positions of PlaceBlock, BreakBlock and GetBlockAt requests.
BlockPositions == { << 0, 0, 0 >>, << -1, 1, 0 >> }

\* player_position and render_distance of GetUpdatedChunks requests.
QueryPositions == { << 0, 0, 0 >>, << ChunkSide, ChunkSide, 0 >> }
RenderDistances == { 0, 1 }

\* Chunk coordinates of GetChunk requests.
QueryChunks == { << 0, 0, 0 >>, toAbsoluteChunk(toAbsoluteBlock(PreciseEast)) }

\* Session tokens are strings; a token is modelled as a sequence and the empty
\* string as the empty sequence.
Tokens == { << i >> : i \in 1 .. MaxEntities }
\* The handler threads of the gRPC server.
Handlers == 1 .. MaxHandlers
EmptyToken == << >>

\* A function with one more pair.
Put(f, k, v) == [x \in DOMAIN f \cup {k} |-> IF x = k THEN v ELSE f[x]]
\* A function without some keys.
Drop(f, ks) == [x \in DOMAIN f \ ks |-> f[x]]

VARIABLES
    chunks_,          \* World::chunks_: resident chunk -> storage
    chunkGenerator_,  \* World::chunkGenerator_ is set
    persistence_,     \* World::persistence_ is set
    store,            \* the chunks table of the persistence backend
    uninit,           \* what a never-written cell of a new ChunkSpan reads as
    loadAnchors,      \* what World::loadAnchors_() returns now
    entityPos,        \* registry: entity with NameComponent -> precise position
    nextEntity,       \* the next entity id the registry creates
    activeSessions_,  \* PlayerSessionManager::activeSessions_
    updatedChunks_,   \* Server::updatedChunks_
    pbCall,           \* a PlaceBlock handler between its write and its mark
    uppCall,          \* an UpdatePlayerPosition handler past its validation
    dpCall,           \* a DisconnectPlayer handler past its getPlayerSession
    accessing,        \* handler thread -> the World method it is executing
    resp,             \* the response of the last completed call
    held,             \* block position -> block of its last write, no eviction lost
    everPlaced,       \* block position -> block of its last returned PlaceBlock
    cleaned,          \* entities whose session the cleanup task removed
    requestedChunks_, \* Client::requestedChunks_
    pending_calls_,   \* Client::pending_calls_: tag -> position of the call
    requestBacklog_,  \* Client::requestBacklog_
    cachedChunks_,    \* Client::cachedChunks_ (the positions it holds)
    inflight,         \* calls started with Finish(), not yet answered: tag -> position
    cq,               \* events in the completion queue cq_: tag -> has chunk_data
    nextTag,          \* the tag of the next AsyncChunkCall allocated
    caller,           \* the application's thread, in a method of Client
    worker,           \* the thread in completionThreadFunc
    asked,            \* the positions of a batch the application has asked for
    placeCall,        \* the last Client::placeBlock call of the application
    cachedBlock,      \* cached chunk -> the block it holds where blocks are placed
    serverBlock,      \* chunk -> the block the server holds there
    responseBlock,    \* tag -> that block in the chunk_data of the call's response
    blocks_,          \* StatefulChunkOverlay::blocks_ of the overlay being written
    iteration,        \* the order in which iterating blocks_ yields its keys
    payload,          \* the bytes handed to StatefulChunkOverlay::deserialize
    loaded,           \* what deserialize returned: an optional overlay
    codec,            \* how far the overlay is through save and load
    conv,             \* a block position on its way through the conversions
    chainOverlay,     \* a ChainOverlay, the buffer it generates into, and how far it is
    merge,            \* a MergeChunkTransform, the chunk it is applied to, and how far it is
    locking,          \* client thread -> the method it runs and how far through its locks
    conn              \* connected_, stub_, shouldStop_ and sessionToken_

serverVars == << chunks_, chunkGenerator_, persistence_, store, uninit, loadAnchors,
                 entityPos, nextEntity, activeSessions_, updatedChunks_, pbCall,
                 uppCall, dpCall, accessing, resp, held, everPlaced, cleaned >>

clientVars == << requestedChunks_, pending_calls_, requestBacklog_, cachedChunks_,
                 inflight, cq, nextTag, caller, worker, asked, conn, placeCall,
                 cachedBlock, serverBlock, responseBlock >>

\* The state of Client::placeBlock and of the block it places.
placeVars == << placeCall, cachedBlock, serverBlock, responseBlock >>

\* The state of a StatefulChunkOverlay on its way through serialize and
\* deserialize.
overlayVars == << blocks_, iteration, payload, loaded, codec >>

\* The state of the conversions of position.h applied to one block position.
coordVars == << conv >>

\* The state of the library code that runs apart from server and client.
\* The state of the generator pipeline: an overlay chain and a merge transform.
generatorVars == << chainOverlay, merge >>

\* Where each thread of the client is among the mutexes of Client.
lockVars == << locking >>

libraryVars == << overlayVars, coordVars, generatorVars, lockVars >>

vars == << serverVars, clientVars, libraryVars >>

EmptyFn == [x \in {} |-> None]
\* A response: the call it answers with the request's position, number (block
\* type or render distance) and token, then the fields a response message may
\* carry, each at its default until the handler sets it.
Reply(op, ok, msg) ==
    [op |-> op, ok |-> ok, error_message |-> msg, pos |-> << >>, arg |-> 0,
     token |-> << >>, block_type |-> 0, updated_chunks |-> {}, chunk_data |-> << >>]
NoResp == Reply("none", TRUE, "")

ServerInit ==
    /\ chunks_ = EmptyFn
    /\ chunkGenerator_ \in BOOLEAN
    /\ persistence_ \in BOOLEAN
    /\ store = EmptyFn
    /\ uninit \in {Empty, Stone}
    /\ loadAnchors \in AnchorSets
    /\ entityPos = EmptyFn
    /\ nextEntity = 0
    /\ activeSessions_ = EmptyFn
    /\ updatedChunks_ = {}
    /\ pbCall = << >>
    /\ uppCall = << >>
    /\ dpCall = << >>
    /\ accessing = [h \in Handlers |-> << >>]
    /\ resp = NoResp
    /\ held = EmptyFn
    /\ everPlaced = EmptyFn
    /\ cleaned = {}

CallerIdle == [pc |-> "idle", pos |-> << >>, tag |-> 0, data |-> FALSE, ret |-> "idle"]
WorkerIdle == [pc |-> "next", tag |-> 0, data |-> FALSE, pos |-> << >>]

\* After connect() has returned true: the stub exists, the completion thread
\* runs, no player session yet.
Connected ==
    [connected_ |-> TRUE, stub_ |-> TRUE, shouldStop_ |-> FALSE, cqShutdown |-> FALSE,
     sessionToken_ |-> << >>]

\* The chunks the caller asks for, and how many calls one run allocates.
ClientChunks == { << i, 0, 0 >> : i \in 0 .. MaxInflight + 1 }
MaxCalls == MaxInflight + 2

\* No placeBlock has been called.
NoPlace ==
    [chunk |-> << >>, block |-> Empty, cached |-> FALSE, detached |-> FALSE,
     returned |-> FALSE, ret |-> FALSE]

ClientInit ==
    /\ placeCall = NoPlace
    /\ cachedBlock = [c \in ClientChunks |-> Empty]
    /\ serverBlock = [c \in ClientChunks |-> Empty]
    /\ responseBlock = [tag \in 1 .. MaxCalls |-> Empty]
    /\ requestedChunks_ = {}
    /\ pending_calls_ = EmptyFn
    /\ requestBacklog_ = << >>
    /\ cachedChunks_ = {}
    /\ inflight = EmptyFn
    /\ cq = EmptyFn
    /\ nextTag = 1
    /\ caller = CallerIdle
    /\ worker = WorkerIdle
    /\ asked = {}
    /\ conn = Connected

\* A default-constructed StatefulChunkOverlay, nothing serialized yet.
OverlayInit ==
    /\ blocks_ = << >>
    /\ iteration = << >>
    /\ payload = << >>
    /\ loaded = nullopt
    /\ codec = "build"

\* No conversion asked for yet.
ConvIdle == [pc |-> "idle", asserts |-> FALSE, b |-> << >>, c |-> << >>, l |-> << >>, back |-> << >>]

\* No chain composed and no merge transform built yet.
NoChain == [pc |-> "none", layers_ |-> << >>, out |-> << >>]
NoMerge == [pc |-> "none", first_ |-> << >>, second_ |-> << >>, storage |-> << >>, input |-> << >>]

\* The threads that use a Client: the application's, the completion thread,
\* and a thread of the application that disconnects.
LockThreads == { "caller", "completion", "closer" }

Init ==
    /\ ServerInit /\ ClientInit /\ OverlayInit
    /\ conv = ConvIdle /\ chainOverlay = NoChain /\ merge = NoMerge
    /\ locking = [t \in LockThreads |-> [method |-> "none", at |-> 0]]

(***************************************************************************)
(* World (world.cpp).                                                      *)
(***************************************************************************)
Abs(n) == IF n < 0 THEN -n ELSE n

\* A candidate for WithinRadius: the sphere without its surface.
WithinRadius_open(dx, dy, dz) == dx * dx + dy * dy + dz * dz < Radius * Radius

\* std::sqrt(dx*dx + dy*dy + dz*dz) <= radius
WithinRadius(dx, dy, dz) == dx * dx + dy * dy + dz * dz <= Radius * Radius

\* The dx, dy, dz loops of ensureChunksLoaded around one anchor chunk.
Offsets == (-Radius) .. Radius
Sphere(ac) ==
    { << ac[1] + o[1], ac[2] + o[2], ac[3] + o[3] >> :
        o \in { d \in Offsets \X Offsets \X Offsets : WithinRadius(d[1], d[2], d[3]) } }

\* The view over <NameComponent, AbsolutePrecisePosition>, as block positions.
EntityAnchors == { toAbsoluteBlock(entityPos[e]) : e \in DOMAIN entityPos }

\* chunksToLoad of ensureChunksLoaded.
ChunksToLoad ==
    UNION { Sphere(toAbsoluteChunk(a)) : a \in loadAnchors \cup EntityAnchors }

\* A candidate for LoadedChunk: persistence is not asked.
LoadedChunk_generated(c) ==
    IF chunkGenerator_
        THEN HeightmapApply(NewChunkSpan(uninit), c)
        ELSE NewChunkSpan(uninit)

\* The chunk ensureChunksLoaded makes for a position that is not resident:
\* the persisted one, else the generated one, else a plain ChunkSpan.
LoadedChunk(c) ==
    IF persistence_ /\ c \in DOMAIN store
        THEN LoadBlob(store[c])
        ELSE IF chunkGenerator_
            THEN HeightmapApply(NewChunkSpan(uninit), c)
            ELSE NewChunkSpan(uninit)

Resident(c) == c \in DOMAIN chunks_

\* The loadAnchors_ callback returns something else from now on.
SetLoadAnchors(A) ==
    /\ resp.op = "none"
    /\ A # loadAnchors
    /\ loadAnchors' = A
    /\ UNCHANGED << clientVars, libraryVars, dpCall, accessing, chunks_, chunkGenerator_, persistence_, store, uninit, entityPos,
                    nextEntity, activeSessions_, updatedChunks_, pbCall, uppCall,
                    resp, held, everPlaced, cleaned >>

EnsureChunksLoaded ==
    /\ resp.op = "none"
    /\ chunks_' = [c \in DOMAIN chunks_ \cup ChunksToLoad |->
                      IF c \in DOMAIN chunks_ THEN chunks_[c] ELSE LoadedChunk(c)]
    /\ resp' = Reply("ensureChunksLoaded", TRUE, "")
    /\ UNCHANGED << clientVars, libraryVars, dpCall, accessing, chunkGenerator_, persistence_, store, uninit, loadAnchors,
                    entityPos, nextEntity, activeSessions_, updatedChunks_, pbCall,
                    uppCall, held, everPlaced, cleaned >>

\* shouldKeep of garbageCollectChunks: only the callback's anchors count.
ShouldKeep(c) ==
    \E a \in loadAnchors :
        LET ac == toAbsoluteChunk(a)
        IN  WithinRadius(c[1] - ac[1], c[2] - ac[2], c[3] - ac[3])

ChunksToUnload == { c \in DOMAIN chunks_ : ~ShouldKeep(c) }

\* A candidate for garbageCollectChunks: a chunk whose save failed stays in
\* the map.
CollectChunks_keepUnsaved(failed) ==
    /\ resp.op = "none"
    /\ failed \subseteq ChunksToUnload
    /\ failed # {} => persistence_
    /\ store' = IF persistence_
                    THEN [c \in DOMAIN store \cup (ChunksToUnload \ failed) |->
                             IF c \in ChunksToUnload \ failed THEN SaveBlob(chunks_[c])
                                                              ELSE store[c]]
                    ELSE store
    /\ chunks_' = Drop(chunks_, ChunksToUnload \ failed)
    /\ held' = Drop(held, { p \in DOMAIN held :
                              /\ toAbsoluteChunk(p) \in ChunksToUnload \ failed
                              /\ persistence_ => toAbsoluteChunk(p) \in failed })
    /\ resp' = Reply("garbageCollectChunks", TRUE, "")
    /\ UNCHANGED << clientVars, libraryVars, dpCall, accessing, chunkGenerator_, persistence_, uninit, loadAnchors,
                    entityPos, nextEntity, activeSessions_, updatedChunks_, pbCall,
                    uppCall, everPlaced, cleaned >>

\* garbageCollectChunks.  failed: the chunks whose persistence_->saveChunk
\* returns false; the result is ignored, the chunk is erased and the loop
\* goes on to the next chunk.
CollectChunks(failed) ==
    /\ resp.op = "none"
    /\ failed \subseteq ChunksToUnload
    /\ failed # {} => persistence_
    /\ store' = IF persistence_
                    THEN [c \in DOMAIN store \cup (ChunksToUnload \ failed) |->
                             IF c \in ChunksToUnload \ failed THEN SaveBlob(chunks_[c])
                                                              ELSE store[c]]
                    ELSE store
    /\ chunks_' = Drop(chunks_, ChunksToUnload)
    /\ held' = Drop(held, { p \in DOMAIN held :
                              /\ toAbsoluteChunk(p) \in ChunksToUnload
                              /\ persistence_ => toAbsoluteChunk(p) \in failed })
    /\ resp' = Reply("garbageCollectChunks", TRUE, "")
    /\ UNCHANGED << clientVars, libraryVars, dpCall, accessing, chunkGenerator_, persistence_, uninit, loadAnchors,
                    entityPos, nextEntity, activeSessions_, updatedChunks_, pbCall,
                    uppCall, everPlaced, cleaned >>

\* garbageCollectChunks whose saves succeed or fail together.
GarbageCollectChunks ==
    \E failed \in {{}, ChunksToUnload} : CollectChunks(failed)

\* garbageCollectChunks whose saves fail for none of the chunks, for one of
\* them or for all.
SaveFailures == {{}, ChunksToUnload} \cup { {c} : c \in ChunksToUnload }
GarbageCollectChunksPartly ==
    \E failed \in SaveFailures : CollectChunks(failed)

\* World::getBlockIfLoaded; an optional is a sequence of at most one value.
getBlockIfLoaded(pos) ==
    LET c == toAbsoluteChunk(pos)
    IN  IF Resident(c) THEN << getBlock(chunks_[c], toChunkLocal(pos, c)) >> ELSE << >>

\* A candidate for setBlockIfLoaded: the block lands in the cell at local y = 0.
setBlockIfLoaded_y0(pos, block) ==
    LET c == toAbsoluteChunk(pos)
        l == toChunkLocal(pos, c)
    IN  [chunks_ EXCEPT ![c] = setBlock(chunks_[c], << l[1], 0, l[3] >>, block)]

\* World::setBlockIfLoaded on a resident chunk: the chunk map after the write.
setBlockIfLoaded(pos, block) ==
    LET c == toAbsoluteChunk(pos)
    IN  [chunks_ EXCEPT ![c] = setBlock(chunks_[c], toChunkLocal(pos, c), block)]

\* A candidate for saveAllLoadedChunks: nothing is saved.
saveAllLoadedChunks_none(table, chunks) == table

\* SQLiteChunkPersistence::saveAllLoadedChunks: saveChunk for every chunk of
\* the map; the table afterwards.
saveAllLoadedChunks(table, chunks) ==
    [c \in DOMAIN table \cup DOMAIN chunks |->
        IF c \in DOMAIN chunks THEN SaveBlob(chunks[c]) ELSE table[c]]

\* World::~World, and a new World built on the same store with the same
\* generator and anchors: the resident chunks are saved when persistence is
\* set, and the new World starts with no chunk, entity or session.  saveOk:
\* whether the saves succeed (saveAllLoadedChunks ignores their results).
DestroyWorld ==
    \E saveOk \in BOOLEAN :
        /\ resp.op = "none"
        /\ pbCall = << >>
        /\ uppCall = << >>
        /\ dpCall = << >>
        /\ ~saveOk => (persistence_ /\ DOMAIN chunks_ # {})
        /\ store' = IF persistence_ /\ saveOk
                        THEN saveAllLoadedChunks(store, chunks_)
                        ELSE store
        /\ chunks_' = EmptyFn
        /\ entityPos' = EmptyFn
        /\ activeSessions_' = EmptyFn
        /\ held' = IF persistence_ /\ saveOk
                       THEN held
                       ELSE Drop(held, { p \in DOMAIN held :
                                           toAbsoluteChunk(p) \in DOMAIN chunks_ })
        /\ resp' = Reply("~World", TRUE, "")
        /\ UNCHANGED << clientVars, libraryVars, dpCall, accessing, chunkGenerator_, persistence_, uninit,
                        loadAnchors, nextEntity, updatedChunks_, pbCall, uppCall,
                        everPlaced, cleaned >>

(***************************************************************************)
(* Server: the block and chunk handlers (server.cpp).                      *)
(***************************************************************************)
\* block_type values of PlaceBlock requests; the last one does not fit a Block.
BlockTypes == { Grass, 256 + Stone }

\* static_cast<Block>(request->block_type()): Block is a uint8_t enum.
ToBlock(bt) == bt % 256

\* A candidate for markChunkUpdated: the set is left as it is.
markChunkUpdated_skip(set, c) == set

\* Server::markChunkUpdated
markChunkUpdated(set, c) == set \cup {c}

\* A candidate for ChunkDistance: the sum of the three differences.
ChunkDistance_sum(a, b) == Abs(a[1] - b[1]) + Abs(a[2] - b[2]) + Abs(a[3] - b[3])

\* std::max({dx, dy, dz}) of getUpdatedChunksInRange
Max3(x, y, z) == IF x >= y /\ x >= z THEN x ELSE IF y >= z THEN y ELSE z
ChunkDistance(a, b) == Max3(Abs(a[1] - b[1]), Abs(a[2] - b[2]), Abs(a[3] - b[3]))

\* result of Server::getUpdatedChunksInRange
UpdatedChunksInRange(playerPos, renderDistance) ==
    { c \in updatedChunks_ : ChunkDistance(c, toAbsoluteChunk(playerPos)) <= renderDistance }

\* GetChunk: success either way; chunk_data only for a resident chunk.
GetChunk(c) ==
    /\ resp.op = "none"
    /\ resp' = [Reply("GetChunk", TRUE, "") EXCEPT
                   !.pos = c,
                   !.chunk_data = IF Resident(c) THEN << SerializeChunk(c, chunks_[c]) >>
                                                 ELSE << >>]
    /\ UNCHANGED << clientVars, libraryVars, dpCall, accessing, chunks_, chunkGenerator_, persistence_, store, uninit, loadAnchors,
                    entityPos, nextEntity, activeSessions_, updatedChunks_, pbCall,
                    uppCall, held, everPlaced, cleaned >>

\* GetBlockAt: success either way; Empty for a chunk that is not resident.
GetBlockAt(pos) ==
    /\ resp.op = "none"
    /\ resp' = [Reply("GetBlockAt", TRUE, "") EXCEPT
                   !.pos = pos,
                   !.block_type = IF getBlockIfLoaded(pos) # << >>
                                      THEN getBlockIfLoaded(pos)[1] ELSE Empty]
    /\ UNCHANGED << clientVars, libraryVars, dpCall, accessing, chunks_, chunkGenerator_, persistence_, store, uninit, loadAnchors,
                    entityPos, nextEntity, activeSessions_, updatedChunks_, pbCall,
                    uppCall, held, everPlaced, cleaned >>

\* A candidate for PlaceBlock: the chunk is marked updated first and the write
\* to the chunk is left for later.
PlaceBlockBegin_markFirst(op, pos, bt) ==
    /\ resp.op = "none"
    /\ pbCall = << >>
    /\ IF Resident(toAbsoluteChunk(pos))
        THEN /\ updatedChunks_' = markChunkUpdated(updatedChunks_, toAbsoluteChunk(pos))
             /\ pbCall' = << [op |-> op, pos |-> pos, bt |-> bt, block |-> ToBlock(bt)] >>
             /\ held' = IF op = "PlaceBlock" THEN Put(held, pos, ToBlock(bt))
                                             ELSE Drop(held, {pos})
             /\ everPlaced' = Drop(everPlaced, {pos})
             /\ UNCHANGED << resp, chunks_ >>
        ELSE /\ resp' = [Reply(op, FALSE, "Chunk not loaded") EXCEPT
                            !.pos = pos, !.arg = bt]
             /\ UNCHANGED << chunks_, pbCall, held, everPlaced, updatedChunks_ >>
    /\ UNCHANGED << clientVars, libraryVars, dpCall, accessing, chunkGenerator_, persistence_, store, uninit, loadAnchors, entityPos,
                    nextEntity, activeSessions_, uppCall, cleaned >>

\* PlaceBlock up to the return of world_->setBlockIfLoaded: the failure
\* response for a chunk that is not resident, else the write.  BreakBlock runs
\* the same handler with Block::Empty.
PlaceBlockBegin(op, pos, bt) ==
    /\ resp.op = "none"
    /\ pbCall = << >>
    /\ IF Resident(toAbsoluteChunk(pos))
        THEN /\ chunks_' = setBlockIfLoaded(pos, ToBlock(bt))
             /\ pbCall' = << [op |-> op, pos |-> pos, bt |-> bt, block |-> ToBlock(bt)] >>
             /\ held' = IF op = "PlaceBlock" THEN Put(held, pos, ToBlock(bt))
                                             ELSE Drop(held, {pos})
             /\ everPlaced' = Drop(everPlaced, {pos})
             /\ UNCHANGED resp
        ELSE /\ resp' = [Reply(op, FALSE, "Chunk not loaded") EXCEPT
                            !.pos = pos, !.arg = bt]
             /\ UNCHANGED << chunks_, pbCall, held, everPlaced >>
    /\ UNCHANGED << clientVars, libraryVars, dpCall, accessing, chunkGenerator_, persistence_, store, uninit, loadAnchors, entityPos,
                    nextEntity, activeSessions_, updatedChunks_, uppCall, cleaned >>

PlaceBlock(pos, bt) == PlaceBlockBegin("PlaceBlock", pos, bt)

BreakBlock(pos) == PlaceBlockBegin("BreakBlock", pos, Empty)

\* The success branch of PlaceBlock: markChunkUpdated, then the response.
PlaceBlockMark ==
    /\ resp.op = "none"
    /\ pbCall # << >>
    /\ updatedChunks_' = markChunkUpdated(updatedChunks_, toAbsoluteChunk(pbCall[1].pos))
    /\ resp' = [Reply(pbCall[1].op, TRUE, "") EXCEPT
                   !.pos = pbCall[1].pos, !.arg = pbCall[1].bt]
    /\ everPlaced' = IF pbCall[1].op = "PlaceBlock" /\ Resident(toAbsoluteChunk(pbCall[1].pos))
                        THEN Put(everPlaced, pbCall[1].pos, pbCall[1].block)
                        ELSE everPlaced
    /\ pbCall' = << >>
    /\ UNCHANGED << clientVars, libraryVars, dpCall, accessing, chunks_, chunkGenerator_, persistence_, store, uninit, loadAnchors,
                    entityPos, nextEntity, activeSessions_, uppCall, held, cleaned >>

\* GetUpdatedChunks: without player_position a failure; else the dirty chunks in
\* range, and the dirty set cleared.
GetUpdatedChunks(hasPos, playerPos, renderDistance) ==
    /\ resp.op = "none"
    /\ IF hasPos
        THEN /\ resp' = [Reply("GetUpdatedChunks", TRUE, "") EXCEPT
                            !.pos = playerPos, !.arg = renderDistance,
                            !.updated_chunks =
                                UpdatedChunksInRange(playerPos, renderDistance)]
             /\ updatedChunks_' = {}
        ELSE /\ resp' = Reply("GetUpdatedChunks", FALSE, "Player position required")
             /\ UNCHANGED updatedChunks_
    /\ UNCHANGED << clientVars, libraryVars, dpCall, accessing, chunks_, chunkGenerator_, persistence_, store, uninit, loadAnchors,
                    entityPos, nextEntity, activeSessions_, pbCall, uppCall, held,
                    everPlaced, cleaned >>

(***************************************************************************)
(* PlayerSessionManager (player_session.cpp) and the session handlers.     *)
(* A session is [sessionToken, playerEntity, position, elapsed]: elapsed   *)
(* is the number of seconds since lastRefresh, not counted beyond          *)
(* SESSION_TIMEOUT.                                                        *)
(***************************************************************************)
\* elapsed >= SESSION_TIMEOUT of removeExpiredSessions
Expired(session) == session.elapsed >= SESSION_TIMEOUT

\* PlayerSessionManager::isValidSession
isValidSession(token) ==
    /\ token \in DOMAIN activeSessions_
    /\ activeSessions_[token].elapsed < SESSION_TIMEOUT

\* PlayerSessionManager::getSession: the session if it exists and is valid.
getSession(sessions, token) ==
    IF token \in DOMAIN sessions /\ sessions[token].elapsed < SESSION_TIMEOUT
        THEN << sessions[token] >> ELSE << >>

\* PlayerSessionManager::refreshSession on a token that is in the map:
\* lastRefresh = now.
refreshSession(token) ==
    [activeSessions_ EXCEPT ![token].elapsed = 0]

\* PlayerSessionManager::updatePlayerPosition on a token that is in the map.
updatePlayerPosition(token, position) ==
    [activeSessions_ EXCEPT ![token].position = position, ![token].elapsed = 0]

\* One second passes.
Tick ==
    /\ resp.op = "none"
    /\ \E t \in DOMAIN activeSessions_ : ~Expired(activeSessions_[t])
    /\ activeSessions_' =
          [t \in DOMAIN activeSessions_ |->
              IF Expired(activeSessions_[t]) THEN activeSessions_[t]
              ELSE [activeSessions_[t] EXCEPT !.elapsed = @ + 1]]
    /\ UNCHANGED << clientVars, libraryVars, dpCall, accessing, chunks_, chunkGenerator_, persistence_, store, uninit, loadAnchors,
                    entityPos, nextEntity, updatedChunks_, pbCall, uppCall, resp, held,
                    everPlaced, cleaned >>

\* A candidate for UniqueTokens: the first token generated is taken.
UniqueTokens_first(sessions) == Tokens

\* PlayerSessionManager::createSession generates tokens until one is not a
\* key of the map: the tokens its loop can end with.
UniqueTokens(sessions) == { t \in Tokens : t \notin DOMAIN sessions }

\* ConnectPlayer: World::createPlayerSession spawns the entity and
\* createSession stores the session under a token that is not in use.
ConnectPlayer(nameEmpty, spawnPos) ==
    /\ resp.op = "none"
    /\ IF nameEmpty
           THEN /\ resp' = [Reply("ConnectPlayer", FALSE, "Player name cannot be empty")
                               EXCEPT !.pos = spawnPos]
                /\ UNCHANGED << clientVars, libraryVars, dpCall, accessing, chunks_, chunkGenerator_, persistence_, store, uninit,
                                loadAnchors, entityPos, nextEntity, activeSessions_,
                                updatedChunks_, pbCall, uppCall, held, everPlaced, cleaned >>
           ELSE /\ nextEntity < MaxEntities
                /\ \E token \in UniqueTokens(activeSessions_) :
                     /\ activeSessions_' =
                           Put(activeSessions_, token,
                               [sessionToken |-> token, playerEntity |-> nextEntity,
                                position |-> spawnPos, elapsed |-> 0])
                     /\ resp' = [Reply("ConnectPlayer", TRUE, "") EXCEPT
                                    !.pos = spawnPos, !.token = token]
                /\ entityPos' = Put(entityPos, nextEntity, spawnPos)
                /\ nextEntity' = nextEntity + 1
                /\ UNCHANGED << clientVars, libraryVars, dpCall, accessing, chunks_, chunkGenerator_, persistence_, store, uninit,
                                loadAnchors, updatedChunks_, pbCall, uppCall, held,
                                everPlaced, cleaned >>

\* RefreshSession: the result of World::refreshPlayerSession is the response.
RefreshSession(token) ==
    /\ resp.op = "none"
    /\ IF token = EmptyToken
        THEN /\ resp' = [Reply("RefreshSession", FALSE, "Session token cannot be empty") EXCEPT !.token = token]
             /\ UNCHANGED activeSessions_
        ELSE IF token \in DOMAIN activeSessions_
            THEN /\ activeSessions_' = refreshSession(token)
                 /\ resp' = [Reply("RefreshSession", TRUE, "") EXCEPT !.token = token]
            ELSE /\ resp' = [Reply("RefreshSession", FALSE, "Invalid or expired session token") EXCEPT !.token = token]
                 /\ UNCHANGED activeSessions_
    /\ UNCHANGED << clientVars, libraryVars, dpCall, accessing, chunks_, chunkGenerator_, persistence_, store, uninit, loadAnchors,
                    entityPos, nextEntity, updatedChunks_, pbCall, uppCall, held,
                    everPlaced, cleaned >>

\* UpdatePlayerPosition up to the return of world_->isValidSession.
UpdatePlayerPosition(token, position) ==
    /\ resp.op = "none"
    /\ uppCall = << >>
    /\ IF token = EmptyToken
        THEN /\ resp' = [Reply("UpdatePlayerPosition", FALSE, "Session token cannot be empty") EXCEPT !.token = token]
             /\ UNCHANGED uppCall
        ELSE IF ~isValidSession(token)
            THEN /\ resp' = [Reply("UpdatePlayerPosition", FALSE, "Invalid or expired session token") EXCEPT !.token = token]
                 /\ UNCHANGED uppCall
            ELSE /\ uppCall' = << [token |-> token, position |-> position] >>
                 /\ UNCHANGED resp
    /\ UNCHANGED << clientVars, libraryVars, dpCall, accessing, chunks_, chunkGenerator_, persistence_, store, uninit, loadAnchors,
                    entityPos, nextEntity, activeSessions_, updatedChunks_, pbCall, held,
                    everPlaced, cleaned >>

\* The rest of UpdatePlayerPosition: World::updatePlayerPosition and the response.
UpdatePlayerPositionApply ==
    /\ resp.op = "none"
    /\ uppCall # << >>
    /\ LET token == uppCall[1].token
           position == uppCall[1].position
       IN  IF token \notin DOMAIN activeSessions_
            THEN /\ resp' = [Reply("UpdatePlayerPosition", FALSE, "Failed to update player position") EXCEPT !.token = token]
                 /\ UNCHANGED << activeSessions_, entityPos >>
            ELSE LET sessions == updatePlayerPosition(token, position)
                     e == sessions[token].playerEntity
                     found == getSession(sessions, token) # << >> /\ e \in DOMAIN entityPos
                 IN  /\ activeSessions_' = sessions
                     /\ entityPos' = IF found THEN [entityPos EXCEPT ![e] = position]
                                              ELSE entityPos
                     /\ resp' = [Reply("UpdatePlayerPosition", found,
                                       IF found THEN ""
                                       ELSE "Failed to update player position")
                                    EXCEPT !.token = token, !.pos = position]
    /\ uppCall' = << >>
    /\ UNCHANGED << clientVars, libraryVars, dpCall, accessing, chunks_, chunkGenerator_, persistence_, store, uninit, loadAnchors,
                    nextEntity, updatedChunks_, pbCall, held, everPlaced, cleaned >>

\* DisconnectPlayer up to the return of world_->getPlayerSession: the handler
\* keeps the session it was given.
DisconnectPlayer(token) ==
    /\ resp.op = "none"
    /\ dpCall = << >>
    /\ IF token = EmptyToken
        THEN /\ resp' = [Reply("DisconnectPlayer", FALSE, "Session token cannot be empty") EXCEPT !.token = token]
             /\ UNCHANGED dpCall
        ELSE IF getSession(activeSessions_, token) # << >>
            THEN /\ dpCall' = << [token |-> token,
                                  playerEntity |-> activeSessions_[token].playerEntity] >>
                 /\ UNCHANGED resp
            ELSE /\ resp' = [Reply("DisconnectPlayer", FALSE, "Invalid session token") EXCEPT !.token = token]
                 /\ UNCHANGED dpCall
    /\ UNCHANGED << clientVars, libraryVars, accessing, chunks_, chunkGenerator_, persistence_, store, uninit,
                    loadAnchors, entityPos, nextEntity, activeSessions_, updatedChunks_,
                    pbCall, uppCall, held, everPlaced, cleaned >>

\* The rest of DisconnectPlayer: World::disconnectPlayerBySession asks the
\* manager for the session again, despawns its entity and removes it when it
\* gets one; the handler answers success whatever it did.
disconnectPlayerBySession ==
    /\ resp.op = "none"
    /\ dpCall # << >>
    /\ LET token == dpCall[1].token
           sessionOpt == getSession(activeSessions_, token)
       IN  /\ IF sessionOpt # << >>
                 THEN /\ entityPos' = Drop(entityPos, {sessionOpt[1].playerEntity})
                      /\ activeSessions_' = Drop(activeSessions_, {token})
                 ELSE UNCHANGED << activeSessions_, entityPos >>
           /\ resp' = [Reply("DisconnectPlayer", TRUE, "") EXCEPT !.token = token]
    /\ dpCall' = << >>
    /\ UNCHANGED << clientVars, libraryVars, accessing, chunks_, chunkGenerator_, persistence_, store, uninit,
                    loadAnchors, nextEntity, updatedChunks_, pbCall, uppCall, held,
                    everPlaced, cleaned >>

\* removeExpiredSessions: the tokens it erases.
ExpiredTokens == { t \in DOMAIN activeSessions_ : Expired(activeSessions_[t]) }

\* One round of sessionCleanupLoop: World::cleanupExpiredSessions erases the
\* expired sessions; its loop over the expired tokens does nothing.
CleanupExpiredSessions ==
    /\ resp.op = "none"
    /\ activeSessions_' = Drop(activeSessions_, ExpiredTokens)
    /\ cleaned' = cleaned \cup { activeSessions_[t].playerEntity : t \in ExpiredTokens }
    /\ UNCHANGED << clientVars, libraryVars, dpCall, accessing, chunks_, chunkGenerator_, persistence_, store, uninit, loadAnchors,
                    entityPos, nextEntity, updatedChunks_, pbCall, uppCall, resp, held,
                    everPlaced >>

(***************************************************************************)
(* The server: the world operations an embedder calls, the handlers, the   *)
(* cleanup task and the clock.  resp holds the response of a call from its *)
(* return until the caller has taken it; the next step starts after that.  *)
(***************************************************************************)
TakeResponse ==
    /\ resp.op # "none"
    /\ resp' = NoResp
    /\ UNCHANGED << clientVars, libraryVars, dpCall, accessing, chunks_, chunkGenerator_, persistence_, store, uninit, loadAnchors,
                    entityPos, nextEntity, activeSessions_, updatedChunks_, pbCall,
                    uppCall, held, everPlaced, cleaned >>

WorldStep ==
    \/ \E A \in AnchorSets : SetLoadAnchors(A)
    \/ EnsureChunksLoaded
    \/ GarbageCollectChunks

WriteStep ==
    \/ \E pos \in BlockPositions, bt \in BlockTypes : PlaceBlock(pos, bt)
    \/ \E pos \in BlockPositions : BreakBlock(pos)
    \/ PlaceBlockMark

SessionStep ==
    \/ \E nameEmpty \in BOOLEAN, pos \in PrecisePositions : ConnectPlayer(nameEmpty, pos)
    \/ \E t \in Tokens \cup {EmptyToken} : RefreshSession(t)
    \/ \E t \in Tokens \cup {EmptyToken}, pos \in PrecisePositions :
          UpdatePlayerPosition(t, pos)
    \/ UpdatePlayerPositionApply
    \/ \E t \in Tokens \cup {EmptyToken} : DisconnectPlayer(t)
    \/ disconnectPlayerBySession
    \/ CleanupExpiredSessions
    \/ Tick

\* The world and its blocks: any generator and persistence configuration.
Next ==
    \/ WorldStep
    \/ WriteStep
    \/ \E pos \in BlockPositions : GetBlockAt(pos)
    \/ TakeResponse

Spec == Init /\ [][Next]_vars

\* A world with a persistence backend that is destroyed and built again on the
\* same store; its anchors stay where they are, so only the destructor
\* takes a chunk out of memory.
PersistInit ==
    /\ Init
    /\ persistence_ = TRUE

PersistNext ==
    \/ EnsureChunksLoaded
    \/ WriteStep
    \/ \E pos \in BlockPositions : GetBlockAt(pos)
    \/ DestroyWorld
    \/ TakeResponse

PersistSpec == PersistInit /\ [][PersistNext]_vars

\* The configuration of the test fixture: a generator, no persistence.
FixtureInit ==
    /\ Init
    /\ chunkGenerator_ = TRUE
    /\ persistence_ = FALSE
    /\ uninit = Empty

\* The dirty set: writes and GetUpdatedChunks around the origin anchor.
DirtyNext ==
    \/ EnsureChunksLoaded
    \/ WriteStep
    \/ \E hasPos \in BOOLEAN, pos \in QueryPositions, d \in RenderDistances :
          GetUpdatedChunks(hasPos, pos, d)
    \/ TakeResponse

DirtySpec == FixtureInit /\ [][DirtyNext]_vars

\* Players and their sessions, with the world loading chunks around them.
SessionNext ==
    \/ SessionStep
    \/ EnsureChunksLoaded
    \/ TakeResponse

SessionSpec == FixtureInit /\ [][SessionNext]_vars

\* A running server: the handlers, the cleanup task and the clock.  Time
\* passes and the cleanup loop wakes up again and again whatever the handlers
\* do (strong fairness: each is only enabled between two requests), responses
\* are always taken and the client keeps asking for chunks; no thread of the
\* server is there to call ensureChunksLoaded, which has no fairness.
LiveNext ==
    \/ SessionStep
    \/ EnsureChunksLoaded
    \/ \E c \in QueryChunks : GetChunk(c)
    \/ TakeResponse

LiveSpec ==
    /\ FixtureInit
    /\ [][LiveNext]_vars
    /\ SF_vars(Tick)
    /\ SF_vars(CleanupExpiredSessions)
    /\ WF_vars(TakeResponse)
    /\ \A c \in QueryChunks : SF_vars(GetChunk(c))

(***************************************************************************)
(* Handler threads inside the World.  The synchronous gRPC server runs its *)
(* handlers on several threads; World has no mutex member, so a handler    *)
(* enters chunkAt, getBlockIfLoaded or setBlockIfLoaded without waiting    *)
(* for anything.  accessing[h] is the method thread h is executing, with   *)
(* the chunk it looks up in chunks_.                                       *)
(***************************************************************************)
\* GetChunk calls world_->chunkAt(pos) and serializes the chunk it gets.
EnterChunkAt(h, c) ==
    /\ accessing[h] = << >>
    /\ accessing' = [accessing EXCEPT ![h] =
                        << [method |-> "chunkAt", writes |-> FALSE, chunk |-> c,
                            pos |-> c, block |-> Empty, count |-> 0] >>]
    /\ UNCHANGED << clientVars, libraryVars, dpCall, chunks_, chunkGenerator_, persistence_, store, uninit,
                    loadAnchors, entityPos, nextEntity, activeSessions_, updatedChunks_,
                    pbCall, uppCall, resp, held, everPlaced, cleaned >>

\* GetBlockAt calls world_->getBlockIfLoaded(pos).
EnterGetBlockIfLoaded(h, pos) ==
    /\ accessing[h] = << >>
    /\ accessing' = [accessing EXCEPT ![h] =
                        << [method |-> "getBlockIfLoaded", writes |-> FALSE,
                            chunk |-> toAbsoluteChunk(pos), pos |-> pos, block |-> Empty,
                            count |-> 0] >>]
    /\ UNCHANGED << clientVars, libraryVars, dpCall, chunks_, chunkGenerator_, persistence_, store, uninit,
                    loadAnchors, entityPos, nextEntity, activeSessions_, updatedChunks_,
                    pbCall, uppCall, resp, held, everPlaced, cleaned >>

\* PlaceBlock calls world_->setBlockIfLoaded(pos, block).
EnterSetBlockIfLoaded(h, pos, bt) ==
    /\ accessing[h] = << >>
    /\ accessing' = [accessing EXCEPT ![h] =
                        << [method |-> "setBlockIfLoaded", writes |-> TRUE,
                            chunk |-> toAbsoluteChunk(pos), pos |-> pos,
                            block |-> ToBlock(bt), count |-> 0] >>]
    /\ UNCHANGED << clientVars, libraryVars, dpCall, chunks_, chunkGenerator_, persistence_, store, uninit,
                    loadAnchors, entityPos, nextEntity, activeSessions_, updatedChunks_,
                    pbCall, uppCall, resp, held, everPlaced, cleaned >>

\* GetChunk on a resident chunk goes on into ChunkSpan::serialize, whose first
\* loop counts the non-Empty cells of the chunk.
SerializeCount(h) ==
    /\ accessing[h] # << >>
    /\ accessing[h][1].method = "chunkAt"
    /\ Resident(accessing[h][1].chunk)
    /\ accessing' = [accessing EXCEPT ![h] =
                        << [accessing[h][1] EXCEPT
                               !.method = "serialize",
                               !.count = nonempty_count(chunks_[accessing[h][1].chunk])] >>]
    /\ UNCHANGED << clientVars, libraryVars, dpCall, chunks_, chunkGenerator_, persistence_, store, uninit,
                    loadAnchors, entityPos, nextEntity, activeSessions_, updatedChunks_,
                    pbCall, uppCall, resp, held, everPlaced, cleaned >>

\* The rest of GetChunk: for a chunk that chunkAt did not find the response
\* without chunk_data; else the second loop of serialize writes the entries
\* of the cells that are non-Empty now after the count of the first loop.
GetChunkReturn(h) ==
    /\ resp.op = "none"
    /\ accessing[h] # << >>
    /\ LET call == accessing[h][1]
       IN  /\ \/ call.method = "serialize"
              \/ call.method = "chunkAt" /\ ~Resident(call.chunk)
           /\ resp' = [Reply("GetChunk", TRUE, "") EXCEPT
                          !.pos = call.chunk,
                          !.chunk_data =
                              IF call.method = "serialize"
                                  THEN << [SerializeChunk(call.chunk, chunks_[call.chunk])
                                              EXCEPT !.nonempty_count = call.count] >>
                                  ELSE << >>]
    /\ accessing' = [accessing EXCEPT ![h] = << >>]
    /\ UNCHANGED << clientVars, libraryVars, dpCall, chunks_, chunkGenerator_, persistence_, store, uninit,
                    loadAnchors, entityPos, nextEntity, activeSessions_, updatedChunks_,
                    pbCall, uppCall, held, everPlaced, cleaned >>

\* getBlockIfLoaded or setBlockIfLoaded of thread h returns; setBlockIfLoaded
\* has written its block when the chunk is resident.
WorldReturn(h) ==
    /\ accessing[h] # << >>
    /\ accessing[h][1].method \in {"getBlockIfLoaded", "setBlockIfLoaded"}
    /\ accessing' = [accessing EXCEPT ![h] = << >>]
    /\ LET call == accessing[h][1]
       IN  IF call.writes /\ Resident(call.chunk)
            THEN /\ chunks_' = setBlockIfLoaded(call.pos, call.block)
                 /\ held' = Put(held, call.pos, call.block)
                 /\ everPlaced' = Drop(everPlaced, {call.pos})
            ELSE UNCHANGED << chunks_, held, everPlaced >>
    /\ UNCHANGED << clientVars, libraryVars, dpCall, chunkGenerator_, persistence_, store, uninit,
                    loadAnchors, entityPos, nextEntity, activeSessions_, updatedChunks_,
                    pbCall, uppCall, resp, cleaned >>

\* Chunk coordinates of the GetChunk requests that meet the writes.
HandlerChunks == QueryChunks \cup { toAbsoluteChunk(pos) : pos \in BlockPositions }

HandlerStep ==
    \/ \E h \in Handlers, c \in HandlerChunks : EnterChunkAt(h, c)
    \/ \E h \in Handlers, pos \in BlockPositions : EnterGetBlockIfLoaded(h, pos)
    \/ \E h \in Handlers, pos \in BlockPositions, bt \in BlockTypes :
          EnterSetBlockIfLoaded(h, pos, bt)
    \/ \E h \in Handlers : SerializeCount(h)
    \/ \E h \in Handlers : GetChunkReturn(h)
    \/ \E h \in Handlers : WorldReturn(h)

\* The handler threads over a world whose chunks the fixture has loaded.
HandlerNext ==
    \/ EnsureChunksLoaded
    \/ TakeResponse
    \/ HandlerStep

HandlerSpec == FixtureInit /\ [][HandlerNext]_vars

(***************************************************************************)
(* Client: the asynchronous chunk requests (client.cpp).  The caller       *)
(* thread runs requestChunk / requestChunkAsync, the worker thread runs    *)
(* completionThreadFunc; a step is what a thread does between two lock     *)
(* acquisitions.                                                           *)
(***************************************************************************)
\* Client::isConnected
isConnected == conn.connected_ /\ conn.stub_

\* The completion thread at the top of its loop: while (!shouldStop_).
WorkerLoop ==
    IF conn.shouldStop_ THEN [WorkerIdle EXCEPT !.pc = "stopped"] ELSE WorkerIdle

\* requestChunk: a cached chunk is returned, else requestChunkAsync runs.
requestChunk(pos) ==
    /\ caller.pc = "idle"
    /\ caller' = IF pos \in cachedChunks_ \/ ~isConnected THEN caller
                 ELSE [CallerIdle EXCEPT !.pc = "requested", !.pos = pos]
    /\ UNCHANGED << serverVars, libraryVars, placeVars, asked, conn, requestedChunks_, pending_calls_, requestBacklog_, cachedChunks_,
                    inflight, cq, nextTag, worker >>

\* requestChunkAsync, entered directly.
requestChunkAsync(pos) ==
    /\ caller.pc = "idle"
    /\ caller' = IF isConnected THEN [CallerIdle EXCEPT !.pc = "requested", !.pos = pos]
                 ELSE caller
    /\ UNCHANGED << serverVars, libraryVars, placeVars, asked, conn, requestedChunks_, pending_calls_, requestBacklog_, cachedChunks_,
                    inflight, cq, nextTag, worker >>

\* CheckRequested without the test of requestedChunks_.
CheckRequested_unchecked ==
    /\ caller.pc = "requested"
    /\ requestedChunks_' = requestedChunks_ \cup {caller.pos}
    /\ caller' = [caller EXCEPT !.pc = "capacity"]
    /\ UNCHANGED << serverVars, libraryVars, placeVars, asked, conn, pending_calls_, requestBacklog_, cachedChunks_,
                    inflight, cq, nextTag, worker >>

\* Under requestedChunksMutex_: return if already requested, else record it.
CheckRequested ==
    /\ caller.pc = "requested"
    /\ IF caller.pos \in requestedChunks_
        THEN /\ caller' = CallerIdle
             /\ UNCHANGED requestedChunks_
        ELSE /\ requestedChunks_' = requestedChunks_ \cup {caller.pos}
             /\ caller' = [caller EXCEPT !.pc = "capacity"]
    /\ UNCHANGED << serverVars, libraryVars, placeVars, asked, conn, pending_calls_, requestBacklog_, cachedChunks_, inflight, cq,
                    nextTag, worker >>

\* Under callsMutex_: at the limit the position goes to the backlog.
CheckCapacity ==
    /\ caller.pc = "capacity"
    /\ IF Cardinality(DOMAIN pending_calls_) >= MaxInflight
        THEN /\ requestBacklog_' = Append(requestBacklog_, caller.pos)
             /\ caller' = CallerIdle
        ELSE /\ caller' = [caller EXCEPT !.pc = "issue"]
             /\ UNCHANGED requestBacklog_
    /\ UNCHANGED << serverVars, libraryVars, placeVars, asked, conn, requestedChunks_, pending_calls_, cachedChunks_, inflight, cq,
                    nextTag, worker >>

\* No lock held: the call is allocated and started (AsyncGetChunk, Finish).
IssueCall ==
    /\ caller.pc = "issue"
    /\ nextTag <= MaxCalls
    /\ \E aborts \in BOOLEAN :
          /\ aborts => conn.cqShutdown
          /\ IF aborts
              THEN /\ caller' = [caller EXCEPT !.pc = "aborted"]
                   /\ UNCHANGED << inflight, nextTag >>
              ELSE /\ inflight' = Put(inflight, nextTag, caller.pos)
                   /\ caller' = [caller EXCEPT !.pc = "insert", !.tag = nextTag]
                   /\ nextTag' = nextTag + 1
    /\ UNCHANGED << serverVars, libraryVars, placeVars, asked, conn, requestedChunks_, pending_calls_, requestBacklog_, cachedChunks_,
                    cq, worker >>

\* Under callsMutex_ again: pending_calls_[tag] = call.
InsertCall ==
    /\ caller.pc = "insert"
    /\ pending_calls_' = Put(pending_calls_, caller.tag, caller.pos)
    /\ caller' = CallerIdle
    /\ UNCHANGED << serverVars, libraryVars, placeVars, asked, conn, requestedChunks_, requestBacklog_, cachedChunks_, inflight, cq,
                    nextTag, worker >>

\* The server answers a call: its event enters the completion queue.
Complete(tag, hasData) ==
    /\ tag \in DOMAIN inflight
    /\ cq' = Put(cq, tag, hasData)
    /\ inflight' = Drop(inflight, {tag})
    /\ responseBlock' = [responseBlock EXCEPT ![tag] = serverBlock[inflight[tag]]]
    /\ UNCHANGED << serverVars, libraryVars, placeCall, cachedBlock, serverBlock, asked, conn, requestedChunks_, pending_calls_, requestBacklog_, cachedChunks_,
                    nextTag, caller, worker >>

\* cq_.AsyncNext returns GOT_EVENT.
AsyncNext ==
    /\ worker.pc = "next"
    /\ \E tag \in DOMAIN cq :
          /\ worker' = [pc |-> "find", tag |-> tag, data |-> cq[tag], pos |-> << >>]
          /\ cq' = Drop(cq, {tag})
    /\ UNCHANGED << serverVars, libraryVars, placeVars, asked, conn, requestedChunks_, pending_calls_, requestBacklog_, cachedChunks_,
                    inflight, nextTag, caller >>

\* Under callsMutex_: the call of the tag is taken out of pending_calls_; with
\* no such call the loop goes on to the next event.
FindCall ==
    /\ worker.pc = "find"
    /\ IF worker.tag \in DOMAIN pending_calls_
        THEN /\ worker' = [worker EXCEPT !.pc = "process", !.pos = pending_calls_[worker.tag]]
             /\ pending_calls_' = Drop(pending_calls_, {worker.tag})
        ELSE /\ worker' = WorkerLoop
             /\ UNCHANGED pending_calls_
    /\ UNCHANGED << serverVars, libraryVars, placeVars, asked, conn, requestedChunks_, requestBacklog_, cachedChunks_, inflight, cq,
                    nextTag, caller >>

\* A candidate for cacheChunk: nothing is evicted.
cacheChunk_keep(pos) == { cachedChunks_ \cup {pos} }

\* Client::cacheChunk: the sets cachedChunks_ may be after the insertion; over
\* the limit, the entry at begin() of the map is erased.
cacheChunk(pos) ==
    LET filled == cachedChunks_ \cup {pos}
    IN  IF Cardinality(filled) > MaxCached
            THEN { filled \ {victim} : victim \in filled }
            ELSE { filled }

\* The blocks of the cache once the chunk made from a response is stored at
\* pos and the cache holds the chunks of cached.
CachedBlocks(cached, pos, block) ==
    [c \in ClientChunks |->
        IF c \notin cached THEN Empty
        ELSE IF c = pos THEN block ELSE cachedBlock[c]]

\* A response with chunk_data is cached: a new ChunkSpan takes the place of
\* the one the cache held for the position, which a placeBlock that has looked
\* it up goes on to write.
ProcessCall ==
    /\ worker.pc = "process"
    /\ IF worker.data
        THEN \E cached \in cacheChunk(worker.pos) :
                /\ cachedChunks_' = cached
                /\ cachedBlock' = CachedBlocks(cached, worker.pos, responseBlock[worker.tag])
                /\ placeCall' =
                      IF caller.pc = "place_set" /\ placeCall.cached
                            /\ (placeCall.chunk = worker.pos \/ placeCall.chunk \notin cached)
                          THEN [placeCall EXCEPT !.detached = TRUE]
                          ELSE placeCall
        ELSE UNCHANGED << cachedChunks_, cachedBlock, placeCall >>
    /\ worker' = [worker EXCEPT !.pc = "erase"]
    /\ UNCHANGED << serverVars, libraryVars, serverBlock, responseBlock, asked, conn, requestedChunks_, pending_calls_, requestBacklog_, inflight, cq,
                    nextTag, caller >>

\* Under requestedChunksMutex_: the position may be requested again.
EraseRequested ==
    /\ worker.pc = "erase"
    /\ requestedChunks_' = requestedChunks_ \ {worker.pos}
    /\ worker' = [worker EXCEPT !.pc = "drain"]
    /\ UNCHANGED << serverVars, libraryVars, placeVars, asked, conn, pending_calls_, requestBacklog_, cachedChunks_, inflight, cq,
                    nextTag, caller >>

\* What the loop over the backlog starts from; nest collects the chains of
\* locks the loop holds at once, in the order it acquires them.
DrainStart ==
    [backlog |-> requestBacklog_, pending |-> pending_calls_,
     requested |-> requestedChunks_, inflight |-> inflight, nextTag |-> nextTag,
     nest |-> {}]

\* Drain with pop_back in place of pop_front.
RECURSIVE Drain_back(_)
Drain_back(st) ==
    IF st.backlog = << >> \/ Cardinality(DOMAIN st.pending) >= MaxInflight
        THEN st
        ELSE LET next == st.backlog[Len(st.backlog)]
                 rest == SubSeq(st.backlog, 1, Len(st.backlog) - 1)
             IN  IF next \in cachedChunks_
                    THEN Drain_back([st EXCEPT !.backlog = rest,
                                               !.requested = @ \ {next}])
                    ELSE Drain_back([st EXCEPT !.backlog = rest,
                                               !.pending = Put(@, st.nextTag, next),
                                               !.inflight = Put(@, st.nextTag, next),
                                               !.nextTag = @ + 1])

\* The while loop over requestBacklog_, run under callsMutex_: st is
\* [backlog, pending, requested, inflight, nextTag].
RECURSIVE Drain(_)
Drain(st) ==
    IF st.backlog = << >> \/ Cardinality(DOMAIN st.pending) >= MaxInflight
        THEN st
        ELSE LET next == Head(st.backlog)
             IN  IF next \in cachedChunks_
                    THEN Drain([st EXCEPT !.backlog = Tail(@),
                                          !.requested = @ \ {next},
                                          !.nest = @ \cup
                                              {<< "callsMutex_", "cacheMutex_",
                                                  "requestedChunksMutex_" >>}])
                    ELSE Drain([st EXCEPT !.backlog = Tail(@),
                                          !.pending = Put(@, st.nextTag, next),
                                          !.inflight = Put(@, st.nextTag, next),
                                          !.nextTag = @ + 1,
                                          !.nest = @ \cup
                                              {<< "callsMutex_", "cacheMutex_" >>}])

DrainBacklog ==
    /\ worker.pc = "drain"
    /\ nextTag + Len(requestBacklog_) <= MaxCalls + 1
    /\ LET st == IF conn.shouldStop_
                    THEN DrainStart
                    ELSE Drain(DrainStart)
       IN  /\ requestBacklog_' = st.backlog
           /\ pending_calls_' = st.pending
           /\ requestedChunks_' = st.requested
           /\ inflight' = st.inflight
           /\ nextTag' = st.nextTag
    /\ worker' = WorkerLoop
    /\ UNCHANGED << serverVars, libraryVars, placeVars, asked, conn, cachedChunks_, cq, caller >>

\* The completion thread leaves its loop: shouldStop_ is set when AsyncNext
\* returns without an event, or the queue reports SHUTDOWN.
WorkerExit ==
    /\ worker.pc = "next"
    /\ conn.shouldStop_ \/ (conn.cqShutdown /\ DOMAIN cq = {} /\ DOMAIN inflight = {})
    /\ worker' = [WorkerIdle EXCEPT !.pc = "stopped"]
    /\ UNCHANGED << serverVars, libraryVars, placeVars, asked, conn, requestedChunks_, pending_calls_, requestBacklog_,
                    cachedChunks_, inflight, cq, nextTag, caller >>

\* processPendingRequests, called by the application: with no stub the
\* in-flight table is cleared, else the loop over the ready completions starts.
processPendingRequests ==
    /\ caller.pc = "idle"
    /\ IF ~isConnected /\ ~conn.stub_
        THEN /\ pending_calls_' = EmptyFn
             /\ UNCHANGED caller
        ELSE /\ caller' = [CallerIdle EXCEPT !.pc = "poll"]
             /\ UNCHANGED pending_calls_
    /\ UNCHANGED << serverVars, libraryVars, placeVars, asked, conn, requestedChunks_, requestBacklog_, cachedChunks_,
                    inflight, cq, nextTag, worker >>

\* The loop condition: AsyncNext with a deadline of 10 ms takes a ready
\* event, and without one processPendingRequests returns.
PollNext ==
    /\ caller.pc = "poll"
    /\ IF DOMAIN cq = {}
        THEN /\ caller' = [CallerIdle EXCEPT !.pc = caller.ret, !.ret = caller.ret]
             /\ UNCHANGED cq
        ELSE \E tag \in DOMAIN cq :
                /\ caller' = [caller EXCEPT !.pc = "poll_find", !.tag = tag,
                                            !.data = cq[tag], !.pos = << >>]
                /\ cq' = Drop(cq, {tag})
    /\ UNCHANGED << serverVars, libraryVars, placeVars, asked, conn, requestedChunks_, pending_calls_, requestBacklog_,
                    cachedChunks_, inflight, nextTag, worker >>

\* Under callsMutex_: the call of the tag is taken out of pending_calls_;
\* without one the loop continues.
PollFind ==
    /\ caller.pc = "poll_find"
    /\ IF caller.tag \in DOMAIN pending_calls_
        THEN /\ caller' = [caller EXCEPT !.pc = "poll_process",
                                         !.pos = pending_calls_[caller.tag]]
             /\ pending_calls_' = Drop(pending_calls_, {caller.tag})
        ELSE /\ caller' = [caller EXCEPT !.pc = "poll"]
             /\ UNCHANGED pending_calls_
    /\ UNCHANGED << serverVars, libraryVars, placeVars, asked, conn, requestedChunks_, requestBacklog_, cachedChunks_,
                    inflight, cq, nextTag, worker >>

\* A response with chunk_data is cached.
PollProcess ==
    /\ caller.pc = "poll_process"
    /\ IF caller.data
        THEN \E cached \in cacheChunk(caller.pos) :
                /\ cachedChunks_' = cached
                /\ cachedBlock' = CachedBlocks(cached, caller.pos, responseBlock[caller.tag])
        ELSE UNCHANGED << cachedChunks_, cachedBlock >>
    /\ caller' = [caller EXCEPT !.pc = "poll_erase"]
    /\ UNCHANGED << serverVars, libraryVars, placeCall, serverBlock, responseBlock, asked, conn, requestedChunks_, pending_calls_, requestBacklog_,
                    inflight, cq, nextTag, worker >>

\* Under requestedChunksMutex_: the position may be requested again.
PollErase ==
    /\ caller.pc = "poll_erase"
    /\ requestedChunks_' = requestedChunks_ \ {caller.pos}
    /\ caller' = [caller EXCEPT !.pc = "poll_drain"]
    /\ UNCHANGED << serverVars, libraryVars, placeVars, asked, conn, pending_calls_, requestBacklog_, cachedChunks_,
                    inflight, cq, nextTag, worker >>

\* Under callsMutex_: the backlog is drained up to capacity, whatever
\* shouldStop_ is.  A call started on a completion queue that has been shut
\* down is outside the contract of the queue: the call is registered or the
\* process aborts.
PollDrain ==
    /\ caller.pc = "poll_drain"
    /\ nextTag + Len(requestBacklog_) <= MaxCalls + 1
    /\ LET st == Drain(DrainStart)
       IN  /\ requestBacklog_' = st.backlog
           /\ pending_calls_' = st.pending
           /\ requestedChunks_' = st.requested
           /\ inflight' = st.inflight
           /\ nextTag' = st.nextTag
           /\ \E aborts \in BOOLEAN :
                 /\ aborts => conn.cqShutdown /\ st.nextTag # nextTag
                 /\ caller' = [caller EXCEPT !.pc = IF aborts THEN "aborted" ELSE "poll"]
    /\ UNCHANGED << serverVars, libraryVars, placeVars, asked, conn, cachedChunks_, cq, worker >>

CallerStep ==
    \/ \E pos \in ClientChunks : requestChunk(pos)
    \/ \E pos \in ClientChunks : requestChunkAsync(pos)
    \/ CheckRequested
    \/ CheckCapacity
    \/ IssueCall
    \/ InsertCall
    \/ processPendingRequests
    \/ PollNext
    \/ PollFind
    \/ PollProcess
    \/ PollErase
    \/ PollDrain

WorkerStep ==
    \/ AsyncNext
    \/ FindCall
    \/ ProcessCall
    \/ EraseRequested
    \/ DrainBacklog

\* Client::placeBlock up to the response of the PlaceBlock RPC.  Not
\* connected, or without a successful response (rpcOk: the status is ok and
\* the server answers success, having written the block), it returns false.
placeBlock(c, block, rpcOk) ==
    /\ caller.pc = "idle"
    /\ IF isConnected /\ rpcOk
        THEN /\ serverBlock' = [serverBlock EXCEPT ![c] = block]
             /\ placeCall' = [NoPlace EXCEPT !.chunk = c, !.block = block]
             /\ caller' = [CallerIdle EXCEPT !.pc = "place_lookup", !.pos = c]
        ELSE /\ placeCall' = [NoPlace EXCEPT !.chunk = c, !.block = block,
                                             !.returned = TRUE]
             /\ UNCHANGED << serverBlock, caller >>
    /\ UNCHANGED << serverVars, libraryVars, cachedBlock, responseBlock, asked, conn, requestedChunks_,
                    pending_calls_, requestBacklog_, cachedChunks_, inflight, cq, nextTag,
                    worker >>

\* getCachedChunk(chunkPos), under cacheMutex_.
PlaceLookup ==
    /\ caller.pc = "place_lookup"
    /\ placeCall' = [placeCall EXCEPT !.cached = placeCall.chunk \in cachedChunks_]
    /\ caller' = [caller EXCEPT !.pc = "place_set"]
    /\ UNCHANGED << serverVars, libraryVars, cachedBlock, serverBlock, responseBlock, asked, conn,
                    requestedChunks_, pending_calls_, requestBacklog_, cachedChunks_,
                    inflight, cq, nextTag, worker >>

\* No lock held: setBlock through the pointer to the chunk the lookup returned, which
\* the cache may hold no more; then return true.
PlaceSet ==
    /\ caller.pc = "place_set"
    /\ cachedBlock' = IF placeCall.cached /\ ~placeCall.detached
                          THEN [cachedBlock EXCEPT ![placeCall.chunk] = placeCall.block]
                          ELSE cachedBlock
    /\ placeCall' = [placeCall EXCEPT !.returned = TRUE, !.ret = TRUE]
    /\ caller' = CallerIdle
    /\ UNCHANGED << serverVars, libraryVars, serverBlock, responseBlock, asked, conn, requestedChunks_,
                    pending_calls_, requestBacklog_, cachedChunks_, inflight, cq, nextTag,
                    worker >>

\* The chunk and the block of the placeBlock calls of the model.
PlaceChunk == << 0, 0, 0 >>

PlaceStep ==
    \/ \E rpcOk \in BOOLEAN : placeBlock(PlaceChunk, Stone, rpcOk)
    \/ PlaceLookup
    \/ PlaceSet

\* The application places blocks and asks for chunks while the completion
\* thread caches the responses.
PlaceNext ==
    \/ PlaceStep
    \/ \E pos \in ClientChunks : requestChunkAsync(pos)
    \/ CheckRequested
    \/ CheckCapacity
    \/ IssueCall
    \/ InsertCall
    \/ WorkerStep
    \/ \E tag \in 1 .. MaxCalls : Complete(tag, TRUE)

PlaceSpec == FixtureInit /\ [][PlaceNext]_vars

ClientNext ==
    \/ CallerStep
    \/ WorkerStep
    \/ \E tag \in 1 .. MaxCalls, hasData \in BOOLEAN : Complete(tag, hasData)

ClientSpec == FixtureInit /\ [][ClientNext]_vars

\* connectAsPlayer: the token of a successful ConnectPlayer is kept.
connectAsPlayer(success) ==
    /\ caller.pc = "idle"
    /\ IF isConnected /\ success
        THEN \E token \in Tokens : conn' = [conn EXCEPT !.sessionToken_ = token]
        ELSE UNCHANGED conn
    /\ UNCHANGED << serverVars, libraryVars, placeVars, asked, requestedChunks_, pending_calls_, requestBacklog_,
                    cachedChunks_, inflight, cq, nextTag, caller, worker >>

\* disconnect() up to the shutdown of the completion queue; without a stub
\* it only resets connected_.
disconnect ==
    /\ caller.pc = "idle"
    /\ IF ~conn.stub_
        THEN /\ conn' = [conn EXCEPT !.connected_ = FALSE]
             /\ UNCHANGED caller
        ELSE /\ conn' = [conn EXCEPT !.connected_ = FALSE, !.shouldStop_ = TRUE,
                                     !.cqShutdown = TRUE]
             /\ caller' = [CallerIdle EXCEPT !.pc = "disc_join"]
    /\ UNCHANGED << serverVars, libraryVars, placeVars, asked, requestedChunks_, pending_calls_, requestBacklog_,
                    cachedChunks_, inflight, cq, nextTag, worker >>

\* The completion thread is joined, or detached after two seconds.
DisconnectJoin ==
    /\ caller.pc = "disc_join"
    /\ \E detached \in BOOLEAN :
          /\ ~detached => worker.pc = "stopped"
          /\ detached => worker.pc # "stopped"
    /\ caller' = [caller EXCEPT !.pc = "disc_wait"]
    /\ UNCHANGED << serverVars, libraryVars, placeVars, asked, conn, requestedChunks_, pending_calls_, requestBacklog_,
                    cachedChunks_, inflight, cq, nextTag, worker >>

\* while (getPendingRequestCount() > 0): processPendingRequests runs until
\* the table is empty or five seconds have passed.
DisconnectWait ==
    /\ caller.pc = "disc_wait"
    /\ IF pending_calls_ = EmptyFn
        THEN caller' = [CallerIdle EXCEPT !.pc = "disc_clear"]
        ELSE \E timedOut \in BOOLEAN :
                caller' = IF timedOut THEN [CallerIdle EXCEPT !.pc = "disc_clear"]
                          ELSE [CallerIdle EXCEPT !.pc = "poll", !.ret = "disc_wait"]
    /\ UNCHANGED << serverVars, libraryVars, placeVars, asked, conn, requestedChunks_, pending_calls_, requestBacklog_,
                    cachedChunks_, inflight, cq, nextTag, worker >>

\* Under callsMutex_: pending_calls_ and requestBacklog_ are cleared.
DisconnectClearCalls ==
    /\ caller.pc = "disc_clear"
    /\ pending_calls_' = EmptyFn
    /\ requestBacklog_' = << >>
    /\ caller' = [caller EXCEPT !.pc = "disc_requested"]
    /\ UNCHANGED << serverVars, libraryVars, placeVars, asked, conn, requestedChunks_, cachedChunks_, inflight, cq,
                    nextTag, worker >>

\* DisconnectClearRequested without the clear.
DisconnectClearRequested_skip ==
    /\ caller.pc = "disc_requested"
    /\ caller' = [caller EXCEPT !.pc = "disc_token"]
    /\ UNCHANGED << serverVars, libraryVars, placeVars, asked, conn, requestedChunks_, pending_calls_,
                    requestBacklog_, cachedChunks_, inflight, cq, nextTag, worker >>

\* Under requestedChunksMutex_: requestedChunks_ is cleared.
DisconnectClearRequested ==
    /\ caller.pc = "disc_requested"
    /\ requestedChunks_' = {}
    /\ caller' = [caller EXCEPT !.pc = "disc_token"]
    /\ UNCHANGED << serverVars, libraryVars, placeVars, asked, conn, pending_calls_, requestBacklog_, cachedChunks_,
                    inflight, cq, nextTag, worker >>

\* Under sessionMutex_ the token is cleared; then the stub and the channel
\* are released and disconnect() returns.
DisconnectReturn ==
    /\ caller.pc = "disc_token"
    /\ conn' = [conn EXCEPT !.sessionToken_ = EmptyToken, !.stub_ = FALSE]
    /\ caller' = CallerIdle
    /\ UNCHANGED << serverVars, libraryVars, placeVars, asked, requestedChunks_, pending_calls_, requestBacklog_,
                    cachedChunks_, inflight, cq, nextTag, worker >>

LifecycleStep ==
    \/ \E success \in BOOLEAN : connectAsPlayer(success)
    \/ disconnect
    \/ DisconnectJoin
    \/ DisconnectWait
    \/ DisconnectClearCalls
    \/ DisconnectClearRequested
    \/ DisconnectReturn
    \/ WorkerExit

\* A connected client that is used and then disconnected.
LifecycleNext ==
    \/ ClientNext
    \/ LifecycleStep

LifecycleSpec == FixtureInit /\ [][LifecycleNext]_vars

\* requestChunk for a position of the batch that has not been asked for yet.
FirstRequest(pos) ==
    /\ caller.pc = "idle"
    /\ pos \notin asked
    /\ asked' = asked \cup {pos}
    /\ caller' = IF pos \in cachedChunks_ \/ ~isConnected THEN caller
                 ELSE [CallerIdle EXCEPT !.pc = "requested", !.pos = pos]
    /\ UNCHANGED << serverVars, libraryVars, placeVars, conn, requestedChunks_, pending_calls_, requestBacklog_,
                    cachedChunks_, inflight, cq, nextTag, worker >>

\* A batch: the application asks once for each of more chunks than the
\* in-flight limit and keeps calling processPendingRequests, both threads are
\* scheduled, and the server answers every call with chunk data.
BatchCallerStep ==
    \/ \E pos \in ClientChunks : FirstRequest(pos)
    \/ CheckRequested
    \/ CheckCapacity
    \/ IssueCall
    \/ InsertCall
    \/ processPendingRequests
    \/ PollNext
    \/ PollFind
    \/ PollProcess
    \/ PollErase
    \/ PollDrain

BatchNext ==
    \/ BatchCallerStep
    \/ WorkerStep
    \/ \E tag \in 1 .. MaxCalls : Complete(tag, TRUE)

BatchSpec ==
    /\ FixtureInit
    /\ [][BatchNext]_vars
    /\ WF_vars(BatchCallerStep)
    /\ WF_vars(WorkerStep)
    /\ \A tag \in 1 .. MaxCalls : WF_vars(Complete(tag, TRUE))

\* The client with its threads scheduled: the completion thread and the
\* application's thread always get to take their next step.  Nothing makes
\* the server answer a call.
ClientLiveSpec ==
    /\ FixtureInit
    /\ [][ClientNext]_vars
    /\ WF_vars(WorkerStep)
    /\ WF_vars(CallerStep)

(***************************************************************************)
(* C1.  In every interleaving of the caller thread with the completion     *)
(* worker, pending_calls_ never holds more than kMaxInflightRequests       *)
(* calls.                                                                  *)
(***************************************************************************)
C1_InflightLimit == Cardinality(DOMAIN pending_calls_) <= MaxInflight

\* The limit has been reached and a request has gone to the backlog.
C1_Saturated ==
    /\ Cardinality(DOMAIN pending_calls_) = MaxInflight
    /\ requestBacklog_ # << >>

(***************************************************************************)
(* Helpers of the statements below.                                        *)
(***************************************************************************)
\* The square of the Euclidean distance of two chunk positions.
EuclidSq(a, b) ==
    (a[1] - b[1]) * (a[1] - b[1]) + (a[2] - b[2]) * (a[2] - b[2])
        + (a[3] - b[3]) * (a[3] - b[3])

\* The chunk that holds a block position: the floor of each coordinate over
\* the chunk's side (\div rounds towards minus infinity).
ChunkOf(pos) ==
    << pos[1] \div ChunkSide, pos[2] \div ChunkSide, pos[3] \div ChunkSide >>

\* The block that holds a precise position (a count of halves): the floor of
\* each coordinate.
BlockOfPrecise(p) ==
    << p[1] \div 2, p[2] \div 2, p[3] \div 2 >>

\* The chunks at most Radius + 1 away from a chunk on every axis.
Around(c) ==
    { << c[1] + dx, c[2] + dy, c[3] + dz >> :
        dx \in (-Radius - 1) .. (Radius + 1), dy \in (-Radius - 1) .. (Radius + 1),
        dz \in (-Radius - 1) .. (Radius + 1) }

\* The block a resident chunk holds at a block position.
BlockAt(m, pos) ==
    LET c == ChunkOf(pos)
    IN  m[c][(pos[1] - c[1] * ChunkSide) + (pos[2] - c[2] * ChunkSide) * ChunkSide
             + (pos[3] - c[3] * ChunkSide) * ChunkSide * ChunkSide]

C5_Original ==
    resp.op = "ensureChunksLoaded" =>
        \A c \in DOMAIN chunks_ :
            \E a \in loadAnchors \cup EntityAnchors :
                EuclidSq(c, ChunkOf(a)) <= Radius * Radius

(***************************************************************************)
(* C8.  PlaceBlock answers ok = false exactly when the chunk of pos is not *)
(* resident, and then changes neither a chunk nor the dirty set; when the  *)
(* chunk is resident it writes the block, and the chunk is in the dirty    *)
(* set when the call returns ok = true.                                    *)
(***************************************************************************)
C8_PlaceBlockResult ==
    [][ /\ \A pos \in BlockPositions, bt \in BlockTypes :
              PlaceBlock(pos, bt) =>
                  IF ChunkOf(pos) \in DOMAIN chunks_
                      THEN /\ resp' = resp
                           /\ pbCall' # << >>
                           /\ BlockAt(chunks_', pos) = bt % 256
                           /\ DOMAIN chunks_' = DOMAIN chunks_
                           /\ \A q \in BlockPositions \ {pos} :
                                  ChunkOf(q) \in DOMAIN chunks_ =>
                                      BlockAt(chunks_', q) = BlockAt(chunks_, q)
                      ELSE /\ resp'.op = "PlaceBlock"
                           /\ resp'.ok = FALSE
                           /\ chunks_' = chunks_
                           /\ updatedChunks_' = updatedChunks_
        /\ PlaceBlockMark =>
              /\ resp'.ok
              /\ ChunkOf(pbCall[1].pos) \in updatedChunks_'
      ]_vars

\* A PlaceBlock fails on a chunk that is not resident, after an earlier one
\* has succeeded on a resident chunk.
C8_FailedAfterSuccess ==
    /\ resp.op = "PlaceBlock"
    /\ ~resp.ok
    /\ updatedChunks_ # {}
    /\ DOMAIN chunks_ # {}

(***************************************************************************)
(* C3.  As stated: once SESSION_TIMEOUT has elapsed since the last refresh *)
(* the session stays invalid: RefreshSession and UpdatePlayerPosition      *)
(* answer ok = false for its token and leave the session as it is, before  *)
(* or after the cleanup has run.                                           *)
(***************************************************************************)
C3_Original ==
    [][\A t \in Tokens :
          (t \in DOMAIN activeSessions_ /\ activeSessions_[t].elapsed >= SESSION_TIMEOUT)
              => /\ t \in DOMAIN activeSessions_' =>
                        activeSessions_'[t] = activeSessions_[t]
                 /\ (/\ resp.op = "none"
                     /\ resp'.op \in {"RefreshSession", "UpdatePlayerPosition"}
                     /\ resp'.token = t) => ~resp'.ok
      ]_vars

C6_Original ==
    [][(resp.op = "none" /\ resp'.op = "GetUpdatedChunks" /\ resp'.ok)
          => updatedChunks_' = updatedChunks_ \ resp'.updated_chunks]_vars

LiveNear(t, c) ==
    /\ t \in DOMAIN activeSessions_
    /\ activeSessions_[t].elapsed < SESSION_TIMEOUT
    /\ EuclidSq(c, ChunkOf(BlockOfPrecise(activeSessions_[t].position)))
          <= Radius * Radius

C9_Original ==
    \A t \in Tokens, c \in QueryChunks :
        LiveNear(t, c) ~> (c \in DOMAIN chunks_ \/ ~LiveNear(t, c))

(***************************************************************************)
(* C10.  As stated: once a session has expired and the cleanup has removed *)
(* it, the position of its player is no anchor of the next                 *)
(* ensureChunksLoaded: what that call loads lies in the sphere of a        *)
(* callback anchor or of a player whose session the cleanup has not        *)
(* removed.                                                                *)
(***************************************************************************)
C10_Original ==
    [][(resp.op = "none" /\ resp'.op = "ensureChunksLoaded")
          => \A c \in DOMAIN chunks_' \ DOMAIN chunks_ :
                \E a \in loadAnchors \cup
                        { BlockOfPrecise(entityPos[e]) : e \in DOMAIN entityPos \ cleaned } :
                    EuclidSq(c, ChunkOf(a)) <= Radius * Radius
      ]_vars

(***************************************************************************)
(* C11.  At every point a chunk position has at most one outstanding       *)
(* request: no position is twice in pending_calls_, twice in               *)
(* requestBacklog_, or in both.                                            *)
(***************************************************************************)
C11_OneOutstanding ==
    /\ \A t1, t2 \in DOMAIN pending_calls_ :
          pending_calls_[t1] = pending_calls_[t2] => t1 = t2
    /\ \A i, j \in 1 .. Len(requestBacklog_) :
          requestBacklog_[i] = requestBacklog_[j] => i = j
    /\ \A t \in DOMAIN pending_calls_, i \in 1 .. Len(requestBacklog_) :
          pending_calls_[t] # requestBacklog_[i]

\* requestChunkAsync is about to return on a position that waits in the
\* backlog while the in-flight table is full.
C11_RepeatedRequest ==
    /\ caller.pc = "requested"
    /\ caller.pos \in requestedChunks_
    /\ \E i \in 1 .. Len(requestBacklog_) : requestBacklog_[i] = caller.pos
    /\ Cardinality(DOMAIN pending_calls_) = MaxInflight

(***************************************************************************)
(* C12.  A request that finds the in-flight table full is appended at the  *)
(* tail of requestBacklog_, and the backlog only loses entries at its      *)
(* head: what a drain issues are the entries of the removed prefix that    *)
(* are not cached, in their order in the backlog.                          *)
(***************************************************************************)
C12_BacklogFifo ==
    [][/\ (/\ caller.pc = "capacity"
           /\ caller'.pc # "capacity"
           /\ Cardinality(DOMAIN pending_calls_) >= MaxInflight)
              => requestBacklog_' = Append(requestBacklog_, caller.pos)
       /\ requestBacklog_' # requestBacklog_ =>
             \/ /\ caller.pc = "capacity"
                /\ requestBacklog_' = Append(requestBacklog_, caller.pos)
                /\ pending_calls_' = pending_calls_
             \/ \E k \in 1 .. Len(requestBacklog_) :
                   /\ requestBacklog_' =
                         SubSeq(requestBacklog_, k + 1, Len(requestBacklog_))
                   /\ LET issued == SelectSeq(SubSeq(requestBacklog_, 1, k),
                                              LAMBDA p : p \notin cachedChunks_)
                      IN  /\ nextTag' = nextTag + Len(issued)
                          /\ \A i \in 1 .. Len(issued) :
                                /\ nextTag + i - 1 \in DOMAIN pending_calls_'
                                /\ pending_calls_'[nextTag + i - 1] = issued[i]
      ]_vars

\* Two requests wait in the backlog and a completion thread is about to
\* drain it below the limit.
C12_TwoWaiting ==
    /\ Len(requestBacklog_) >= 2
    /\ worker.pc = "drain"
    /\ Cardinality(DOMAIN pending_calls_) < MaxInflight
    /\ requestBacklog_[1] \notin cachedChunks_

(***************************************************************************)
(* C13.  As stated: a call whose response does not arrive is removed from  *)
(* pending_calls_ after its timeout, so no call stays in the in-flight     *)
(* table forever.                                                          *)
(***************************************************************************)
C13_Original ==
    \A tag \in 1 .. MaxCalls :
        (tag \in DOMAIN pending_calls_) ~> (tag \notin DOMAIN pending_calls_)

(***************************************************************************)
(* C14.  As stated: a completion without chunk_data that a thread has      *)
(* taken from the queue belongs to a call of pending_calls_, caches        *)
(* nothing and takes the position of its call out of requestedChunks_, and *)
(* a request for a position that is not in requestedChunks_ goes on to be  *)
(* issued.                                                                 *)
(***************************************************************************)
C14_Original ==
    [][/\ (worker.pc = "find" /\ ~worker.data /\ worker' # worker)
              => worker'.pc = "process"
       /\ (caller.pc = "poll_find" /\ ~caller.data /\ caller' # caller)
              => caller'.pc = "poll_process"
       /\ (worker.pc = "process" /\ ~worker.data /\ worker' # worker)
              => cachedChunks_' = cachedChunks_
       /\ (caller.pc = "poll_process" /\ ~caller.data /\ caller' # caller)
              => cachedChunks_' = cachedChunks_
       /\ (worker.pc = "erase" /\ worker' # worker)
              => worker.pos \notin requestedChunks_'
       /\ (caller.pc = "poll_erase" /\ caller' # caller)
              => caller.pos \notin requestedChunks_'
       /\ (caller.pc = "requested" /\ caller.pos \notin requestedChunks_
             /\ caller' # caller) => caller'.pc = "capacity"
      ]_vars

(***************************************************************************)
(* C15.  As stated: once the application has asked for each of the chunks  *)
(* of a batch larger than the in-flight limit, and the server answers      *)
(* every call with chunk data, eventually pending_calls_ and the backlog   *)
(* are empty, each chunk has been issued and completed exactly once, and   *)
(* the cache holds min(size of the batch, limit of the cache) chunks.      *)
(***************************************************************************)
C15_Original ==
    (asked = ClientChunks) ~>
        /\ pending_calls_ = EmptyFn
        /\ requestBacklog_ = << >>
        /\ DOMAIN inflight = {} /\ DOMAIN cq = {}
        /\ nextTag = Cardinality(ClientChunks) + 1
        /\ Cardinality(cachedChunks_) =
              IF Cardinality(ClientChunks) < MaxCached
                  THEN Cardinality(ClientChunks) ELSE MaxCached

(***************************************************************************)
(* C16.  Once disconnect() has returned the client is not connected, its   *)
(* session token is empty, and pending_calls_, requestBacklog_ and         *)
(* requestedChunks_ are empty, whatever was outstanding at the call.       *)
(***************************************************************************)
C16_DisconnectClears ==
    (caller.pc = "idle" /\ ~conn.stub_) =>
        /\ ~isConnected
        /\ conn.sessionToken_ = EmptyToken
        /\ pending_calls_ = EmptyFn
        /\ requestBacklog_ = << >>
        /\ requestedChunks_ = {}

\* disconnect() has returned while a call was not answered, a completion was
\* still in the queue and the completion thread had not been joined.
C16_DisconnectedWithOutstanding ==
    /\ caller.pc = "idle"
    /\ ~conn.stub_
    /\ DOMAIN inflight # {}
    /\ DOMAIN cq # {}
    /\ worker.pc # "stopped"

(***************************************************************************)
(* C18.  As stated: a client thread that holds more than one lock has      *)
(* acquired them in the order already-requested, in-flight, backlog,       *)
(* cache.  The in-flight table and the backlog share callsMutex_.          *)
(***************************************************************************)
LockRank(lock) ==
    CASE lock = "requestedChunksMutex_" -> 1
      [] lock = "callsMutex_" -> 2
      [] lock = "cacheMutex_" -> 4

InLockOrder(chain) ==
    \A i, j \in 1 .. Len(chain) : i < j => LockRank(chain[i]) < LockRank(chain[j])

C18_Original ==
    (\/ worker.pc = "drain" /\ ~conn.shouldStop_
     \/ caller.pc = "poll_drain")
        => \A chain \in Drain(DrainStart).nest : InLockOrder(chain)

(***************************************************************************)
(* C19.  As stated: an UpdatePlayerPosition that answers for a token whose *)
(* session is unknown or expired answers ok = false with a message that    *)
(* contains "session", wherever the cleanup task runs in between.          *)
(***************************************************************************)
\* The error messages of the server in which "session" occurs.
MessagesWithSession ==
    { "Invalid or expired session token", "Invalid session token" }

C19_Original ==
    [][\A t \in Tokens :
          (/\ resp.op = "none"
           /\ resp'.op = "UpdatePlayerPosition"
           /\ resp'.token = t
           /\ t \notin DOMAIN activeSessions_ \/ Expired(activeSessions_[t]))
              => /\ ~resp'.ok
                 /\ resp'.error_message \in MessagesWithSession
      ]_vars

(***************************************************************************)
(* C20.  As stated: a DisconnectPlayer that answers ok = true has removed  *)
(* the session of its token and destroyed the session's player entity, and *)
(* a RefreshSession, UpdatePlayerPosition or DisconnectPlayer that starts  *)
(* on a token without a session answers ok = false.                        *)
(***************************************************************************)
C20_Original ==
    [][/\ (/\ resp.op = "none"
           /\ resp'.op = "DisconnectPlayer"
           /\ resp'.ok)
              => /\ dpCall # << >>
                 /\ dpCall[1].token \notin DOMAIN activeSessions_'
                 /\ dpCall[1].playerEntity \notin DOMAIN entityPos'
       /\ \A t \in Tokens :
             (/\ resp.op = "none"
              /\ resp'.op \in {"RefreshSession", "UpdatePlayerPosition", "DisconnectPlayer"}
              /\ resp'.token = t
              /\ t \notin DOMAIN activeSessions_
              /\ dpCall = << >>)
                 => ~resp'.ok
      ]_vars

(***************************************************************************)
(* C17.  As stated: no two handler threads are inside the World on the     *)
(* same resident chunk at the same time when one of them writes its blocks. *)
(***************************************************************************)
C17_Original ==
    \A h1, h2 \in Handlers :
        (/\ h1 # h2
         /\ accessing[h1] # << >>
         /\ accessing[h2] # << >>
         /\ accessing[h1][1].chunk = accessing[h2][1].chunk
         /\ Resident(accessing[h1][1].chunk))
            => /\ ~accessing[h1][1].writes
               /\ ~accessing[h2][1].writes

(***************************************************************************)
(* C21.  The sessions of the active set have pairwise different tokens,    *)
(* each stored under its own token, and a ConnectPlayer that succeeds      *)
(* returns a token that was not in the active set when it was called.      *)
(***************************************************************************)
C21_UniqueTokens ==
    [][/\ \A t1, t2 \in DOMAIN activeSessions_' :
             /\ activeSessions_'[t1].sessionToken = t1
             /\ t1 # t2 => activeSessions_'[t1].sessionToken # activeSessions_'[t2].sessionToken
       /\ (/\ resp.op = "none"
           /\ resp'.op = "ConnectPlayer"
           /\ resp'.ok)
              => /\ resp'.token \in Tokens
                 /\ resp'.token \notin DOMAIN activeSessions_
                 /\ resp'.token \in DOMAIN activeSessions_'
                 /\ \A t \in DOMAIN activeSessions_ : activeSessions_'[t] = activeSessions_[t]
      ]_vars

\* A second player has connected while the session of the first is active.
C21_SecondSession ==
    /\ resp.op = "ConnectPlayer"
    /\ resp.ok
    /\ Cardinality(DOMAIN activeSessions_) >= 2

(***************************************************************************)
(* C22.  As stated: every chunk ensureChunksLoaded inserts has the         *)
(* persisted contents when persistence holds a blob for it, else the       *)
(* generator's chunk when a generator is configured, else it is a chunk    *)
(* whose cells are all Empty.                                              *)
(***************************************************************************)
C22_Original ==
    [][(resp.op = "none" /\ resp'.op = "ensureChunksLoaded")
          => \A c \in DOMAIN chunks_' \ DOMAIN chunks_ :
                IF persistence_ /\ c \in DOMAIN store
                    THEN chunks_'[c] = LoadBlob(store[c])
                    ELSE IF chunkGenerator_
                        THEN chunks_'[c] = HeightmapApply(NewChunkSpan(uninit), c)
                        ELSE \A i \in CellIndices : chunks_'[c][i] = Empty
      ]_vars

(***************************************************************************)
(* C23.  With persistence whose saves succeed, a block written into a      *)
(* resident chunk that has since been evicted is read back at its position *)
(* when ensureChunksLoaded loads the chunk again.                          *)
(***************************************************************************)
C23_ReloadKeepsBlock ==
    [][(resp.op = "none" /\ resp'.op = "ensureChunksLoaded" /\ persistence_)
          => \A pos \in DOMAIN held :
                LET c == toAbsoluteChunk(pos)
                IN  (c \notin DOMAIN chunks_ /\ c \in DOMAIN chunks_')
                        => getBlock(chunks_'[c], toChunkLocal(pos, c)) = held[pos]
      ]_vars

\* ensureChunksLoaded has returned and a chunk that was saved with a Stone
\* written where the generator puts Grass is resident again with the Stone.
C23_StoneBack ==
    /\ resp.op = "ensureChunksLoaded"
    /\ persistence_
    /\ chunkGenerator_
    /\ \E pos \in DOMAIN held :
          LET c == toAbsoluteChunk(pos)
          IN  /\ held[pos] = Stone
              /\ c \in DOMAIN store
              /\ getBlock(LoadBlob(store[c]), toChunkLocal(pos, c)) = Stone
              /\ HeightmapApply(NewChunkSpan(Empty), c)[LocalIndex(toChunkLocal(pos, c))] = Grass
              /\ c \in DOMAIN chunks_
              /\ getBlock(chunks_[c], toChunkLocal(pos, c)) = Stone

C25_Original ==
    (resp.op = "GetBlockAt" /\ ~Resident(toAbsoluteChunk(resp.pos))) => ~resp.ok

(***************************************************************************)
(* C26.  As stated: a GetChunk answers ok = true and leaves the resident   *)
(* chunks as they are; for a chunk that is not resident it carries no      *)
(* chunk_data, for a resident chunk the serialization of the contents the  *)
(* chunk has when the handler returns.                                     *)
(***************************************************************************)
C26_Original ==
    [][(resp.op = "none" /\ resp'.op = "GetChunk")
          => /\ resp'.ok
             /\ chunks_' = chunks_
             /\ resp'.chunk_data =
                   IF Resident(resp'.pos)
                       THEN << SerializeChunk(resp'.pos, chunks_[resp'.pos]) >>
                       ELSE << >>
      ]_vars

(***************************************************************************)
(* C27.  The client cache never holds more chunks than its cap once a      *)
(* cacheChunk has returned, whichever thread ran it.                       *)
(***************************************************************************)
C27_CacheCap == Cardinality(cachedChunks_) <= MaxCached

\* The completion thread has just cached a chunk into a full cache, and the
\* entry evicted was the one it inserted.
C27_EvictedOnInsert ==
    /\ worker.pc = "erase"
    /\ worker.data
    /\ worker.pos \notin cachedChunks_
    /\ Cardinality(cachedChunks_) = MaxCached

(***************************************************************************)
(* C28.  As stated: when placeBlock returns true and the chunk of the      *)
(* position is in the cache, the cached chunk holds the block there; when  *)
(* it returns false it has not changed the cache.                          *)
(***************************************************************************)
C28_Original ==
    [][/\ (~placeCall.returned /\ placeCall'.returned /\ placeCall'.ret
             /\ placeCall'.chunk \in cachedChunks_')
          => cachedBlock'[placeCall'.chunk] = placeCall'.block
       /\ (placeCall' # placeCall /\ placeCall'.returned /\ ~placeCall'.ret)
          => cachedChunks_' = cachedChunks_ /\ cachedBlock' = cachedBlock
      ]_vars

(***************************************************************************)
(* The sparse overlay codec (statefulchunkoverlay.cpp): an overlay is      *)
(* built with setBlock, serialized, and the bytes (those, or bytes of the  *)
(* chunks table that differ from them) are deserialized.                   *)
(***************************************************************************)
\* Local positions and blocks of the setBlock calls.
OverlayPositions == { << 0, 0, 0 >>, << 1, 0, 1 >>, << 1, 1, 1 >> }

\* Byte strings a reader can be handed in place of d: one byte of d changed,
\* d cut short, and d with bytes appended.
Damaged(d) ==
    { [d EXCEPT ![i] = v] : i \in 1 .. Len(d), v \in 0 .. 2 }
        \cup { SubSeq(d, 1, Len(d) - n) : n \in {1, 5} }
        \cup { d \o << 0 >>, d \o << 0, 0 >> }

SetOverlayBlock(l, block) ==
    /\ codec = "build"
    /\ blocks_' = overlaySetBlock(blocks_, l, block)
    /\ iteration' \in IF DOMAIN blocks_' = DOMAIN blocks_ THEN {iteration}
                      ELSE IterationOrders(DOMAIN blocks_')
    /\ UNCHANGED << serverVars, clientVars, lockVars, coordVars, generatorVars, payload, loaded, codec >>

SerializeOverlay ==
    /\ codec = "build"
    /\ payload' = serialize(blocks_, iteration)
    /\ codec' = "serialized"
    /\ UNCHANGED << serverVars, clientVars, lockVars, coordVars, generatorVars, blocks_, iteration, loaded >>

\* loadChunk reads the blob of the row: bytes that need not be what
\* serialize wrote.
ReadBlob ==
    /\ codec = "serialized"
    /\ payload' \in Damaged(payload)
    /\ codec' = "read"
    /\ UNCHANGED << serverVars, clientVars, lockVars, coordVars, generatorVars, blocks_, iteration, loaded >>

DeserializeOverlay ==
    /\ codec \in {"serialized", "read"}
    /\ loaded' = deserialize(payload)
    /\ codec' = IF codec = "serialized" THEN "roundtrip" ELSE "decoded"
    /\ UNCHANGED << serverVars, clientVars, lockVars, coordVars, generatorVars, blocks_, iteration, payload >>

OverlayNext ==
    \/ \E l \in OverlayPositions, block \in Blocks : SetOverlayBlock(l, block)
    \/ SerializeOverlay
    \/ ReadBlob
    \/ DeserializeOverlay

OverlaySpec == FixtureInit /\ [][OverlayNext]_vars

\* C29: an overlay built by any sequence of setBlock calls holds no Empty
\* entry, and deserialize(serialize(o)) succeeds with exactly the entries of
\* o; the payload is the 12 bytes of the header plus 5 bytes per entry.
C29_RoundTrip ==
    codec = "roundtrip" =>
        /\ \A k \in DOMAIN blocks_ : blocks_[k] # Empty
        /\ loaded.has_value
        /\ loaded.blocks = blocks_
        /\ Len(payload) = (4 + 1 + 1 + 2 + 4) + 5 * Cardinality(DOMAIN blocks_)

\* Two blocks set (a third set and removed again), the 22 bytes deserialized.
C29_TwoEntries ==
    /\ codec = "roundtrip"
    /\ DOMAIN blocks_ = { packKey(<< 1, 0, 1 >>), packKey(<< 1, 1, 1 >>) }
    /\ blocks_[packKey(<< 1, 0, 1 >>)] = Stone
    /\ blocks_[packKey(<< 1, 1, 1 >>)] = Grass
    /\ Len(payload) = 22
    /\ loaded.has_value
    /\ DOMAIN loaded.blocks = DOMAIN blocks_

\* What the header of a payload says, for payloads long enough to hold one.
HeaderIntact(d) ==
    /\ SubSeq(d, 1, 4) = << 83, 67, 79, 49 >>
    /\ d[5] = 1
    /\ d[7] + 256 * d[8] = 1
HeaderCount(d) == d[9] + 256 * d[10] + 65536 * d[11] + 16777216 * d[12]

\* C30 as stated: deserialize returns no overlay for a payload whose length
\* differs from 14 + 5*count, whose magic is not "SCO1", whose version is not
\* 1 or whose block_size is not 1.
C30_Original ==
    codec \in {"roundtrip", "decoded"} =>
        ((\/ Len(payload) < 12
          \/ ~HeaderIntact(payload)
          \/ Len(payload) # 14 + 5 * HeaderCount(payload))
            => ~loaded.has_value)

\* C30 with the header the code writes: deserialize returns no overlay for a
\* payload whose length differs from 12 + 5*count, whose magic is not "SCO1",
\* whose version is not 1 or whose block_size is not 1.
C30_Rejects ==
    codec \in {"roundtrip", "decoded"} =>
        ((\/ Len(payload) < 12
          \/ ~HeaderIntact(payload)
          \/ Len(payload) # 12 + 5 * HeaderCount(payload))
            => ~loaded.has_value)

\* A payload with an intact header and two bytes more than its count
\* announces was refused.
C30_WrongLengthRefused ==
    /\ codec = "decoded"
    /\ Len(payload) >= 12
    /\ HeaderIntact(payload)
    /\ Len(payload) = 14 + 5 * HeaderCount(payload)
    /\ ~loaded.has_value

\* The keys of the entries of a payload, in the order they are written.
EntryKeys(d) ==
    [i \in 1 .. ((Len(d) - 12) \div 5) |->
        d[8 + 5 * i] + 256 * d[9 + 5 * i] + 65536 * d[10 + 5 * i] + 16777216 * d[11 + 5 * i]]

\* C31: the bytes serialize writes depend on the contents of the overlay
\* alone, not on the order the setBlock calls left its map in: the entries
\* are ascending by packed key, none holds Empty, and the count field is the
\* number of entries written.
C31_Deterministic ==
    codec = "serialized" =>
        /\ \A o \in IterationOrders(DOMAIN blocks_) : serialize(blocks_, o) = payload
        /\ Len(payload) = 12 + 5 * HeaderCount(payload)
        /\ \A i \in 1 .. HeaderCount(payload) :
              /\ payload[12 + 5 * i] # Empty
              /\ i > 1 => EntryKeys(payload)[i - 1] < EntryKeys(payload)[i]

\* An overlay of two blocks whose map yields the larger key first, serialized.
C31_LargerKeyFirst ==
    /\ codec = "serialized"
    /\ Len(iteration) = 2
    /\ iteration[1] > iteration[2]
    /\ EntryKeys(payload) = << iteration[2], iteration[1] >>

(***************************************************************************)
(* The conversions of position.h on one block position: to its chunk, to   *)
(* its position within that chunk, and back.  A build either keeps the     *)
(* assertions, and a failed one aborts, or compiles them out.              *)
(***************************************************************************)
\* Components of the block positions converted: around zero and around both
\* ends of the blocks whose chunk coordinate fits.
BlockCoords ==
    { -2 ^ (CoordBits - 1) * ChunkSide - 2, -2 ^ (CoordBits - 1) * ChunkSide - 1,
      -2 ^ (CoordBits - 1) * ChunkSide, -3, -2, -1, 0, 1, 2, 3,
      2 ^ (CoordBits - 1) * ChunkSide - 1, 2 ^ (CoordBits - 1) * ChunkSide,
      2 ^ (CoordBits - 1) * ChunkSide + 1 }

BlockToChunk(b, asserts) ==
    /\ conv.pc = "idle"
    /\ conv' = IF asserts /\ ~toAbsoluteChunk_asserts(b)
                   THEN [conv EXCEPT !.pc = "aborted", !.asserts = asserts, !.b = b]
                   ELSE [conv EXCEPT !.pc = "chunk", !.asserts = asserts, !.b = b,
                                     !.c = toAbsoluteChunk(b)]
    /\ UNCHANGED << serverVars, clientVars, lockVars, overlayVars, generatorVars >>

BlockToLocal ==
    /\ conv.pc = "chunk"
    /\ conv' = IF conv.asserts /\ ~toChunkLocal_asserts(conv.b, conv.c)
                   THEN [conv EXCEPT !.pc = "aborted"]
                   ELSE [conv EXCEPT !.pc = "local", !.l = toChunkLocal(conv.b, conv.c)]
    /\ UNCHANGED << serverVars, clientVars, lockVars, overlayVars, generatorVars >>

LocalToBlock ==
    /\ conv.pc = "local"
    /\ conv' = [conv EXCEPT !.pc = "block", !.back = toAbsoluteBlockIn(conv.c, conv.l)]
    /\ UNCHANGED << serverVars, clientVars, lockVars, overlayVars, generatorVars >>

CoordNext ==
    \/ \E x, y, z \in BlockCoords, asserts \in BOOLEAN : BlockToChunk(<< x, y, z >>, asserts)
    \/ BlockToLocal
    \/ LocalToBlock

CoordSpec == FixtureInit /\ [][CoordNext]_vars

\* The chunk coordinate k is the floor of the block coordinate x divided by
\* the chunk side.
IsFloorOf(k, x) == k * ChunkSide <= x /\ x < (k + 1) * ChunkSide

\* The three conversions of conv.b gave the chunk of the floor, a local
\* position within the chunk, and conv.b again.
ConvertedExactly ==
    /\ conv.pc = "block"
    /\ \A i \in 1 .. 3 : /\ IsFloorOf(conv.c[i], conv.b[i])
                         /\ conv.l[i] >= 0 /\ conv.l[i] < ChunkSide
    /\ conv.back = conv.b

\* C32 as stated: for every block position b, toAbsoluteChunk gives the floor
\* of b over the chunk side, toChunkLocal a position within the chunk, and
\* toAbsoluteBlock of the two gives b.
C32_Original ==
    /\ conv.pc # "aborted"
    /\ conv.pc = "block" => ConvertedExactly

\* C32 for the block positions whose chunk coordinates fit in an int32: the
\* conversions pass their assertions, and give the floor, a local position
\* within the chunk, and b again.
C32_InRange ==
    (conv.pc # "idle" /\ \A i \in 1 .. 3 :
        -2 ^ (CoordBits - 1) * ChunkSide <= conv.b[i] /\ conv.b[i] < 2 ^ (CoordBits - 1) * ChunkSide)
    => /\ conv.pc # "aborted"
       /\ conv.pc = "block" => ConvertedExactly

\* A block with negative coordinates that are not multiples of the chunk side,
\* converted and back.
C32_NegativeBlock ==
    /\ conv.pc = "block"
    /\ conv.b = << -1, -3, 1 >>
    /\ conv.c = << -1, -2, 0 >>
    /\ conv.l = << 1, 1, 1 >>
    /\ conv.back = conv.b

(***************************************************************************)
(* The overlay chain (chunkoverlay.h, emptychunk.h): layers are composed   *)
(* top-most first and generated into a destination buffer.                 *)
(***************************************************************************)
\* EmptyChunk::generateInto: Empty everywhere, whatever the parent.
EmptyChunk_generateInto(out, parent) == [i \in CellIndices |-> Empty]

\* StatefulChunkOverlay::generateInto: the parent's cells (Empty ones without
\* a parent) with the overlay's blocks written over them.
Stateful_generateInto(blocks, out, parent) ==
    [i \in CellIndices |->
        IF packKey(LocalOfIndex(i)) \in DOMAIN blocks THEN blocks[packKey(LocalOfIndex(i))]
        ELSE IF parent = << >> THEN Empty ELSE parent[i]]

\* The virtual call layer->generateInto(out, parent) on the layers of the model.
generateInto(layer, out, parent) ==
    IF layer.kind = "EmptyChunk" THEN EmptyChunk_generateInto(out, parent)
    ELSE Stateful_generateInto(layer.blocks, out, parent)

\* ChainOverlay::generate, were its loop to run from the first layer to the
\* last.
ChainOverlay_generate_forward(layers, out) ==
    IF layers = << >> THEN [i \in CellIndices |-> Empty]
    ELSE LET RECURSIVE loop(_, _, _)
             loop(i, parentBuf, workBuf) ==
                 IF i = Len(layers) THEN generateInto(layers[i], out, parentBuf)
                 ELSE loop(i + 1, generateInto(layers[i], workBuf, parentBuf), parentBuf)
         IN  loop(1, NewChunkSpan(Empty), NewChunkSpan(Empty))

\* ChainOverlay::generate: layers_ holds the top-most layer first; the loop
\* runs from the last layer to the first, each layer but the top-most writing
\* workBuf, which is then swapped with parentBuf, and the top-most writing out.
ChainOverlay_generate(layers, out) ==
    IF layers = << >> THEN [i \in CellIndices |-> Empty]
    ELSE LET RECURSIVE loop(_, _, _)
             loop(i, parentBuf, workBuf) ==
                 IF i = 1 THEN generateInto(layers[i], out, parentBuf)
                 ELSE loop(i - 1, generateInto(layers[i], workBuf, parentBuf), parentBuf)
         IN  loop(Len(layers), NewChunkSpan(Empty), NewChunkSpan(Empty))

\* The layers of the model: EmptyChunk, and the sparse overlays that setBlock
\* calls at two positions leave.
ChainPositions == { << 0, 0, 0 >>, << 1, 1, 1 >> }
ChainLayers ==
    { [kind |-> "EmptyChunk", blocks |-> << >>] }
        \cup { [kind |-> "Stateful", blocks |-> f] :
                 f \in UNION { [K -> {Grass, Stone}] : K \in SUBSET { packKey(l) : l \in ChainPositions } } }
LayerLists == UNION { [1 .. n -> ChainLayers] : n \in 0 .. MaxLayers }

\* compose(layers...) and the buffer the caller hands to generate.
compose(layers, buf) ==
    /\ chainOverlay.pc = "none"
    /\ chainOverlay' = [pc |-> "composed", layers_ |-> layers, out |-> buf]
    /\ UNCHANGED << serverVars, clientVars, lockVars, overlayVars, coordVars, merge >>

ChainGenerate ==
    /\ chainOverlay.pc = "composed"
    /\ chainOverlay' = [chainOverlay EXCEPT !.pc = "generated",
                              !.out = ChainOverlay_generate(chainOverlay.layers_, chainOverlay.out)]
    /\ UNCHANGED << serverVars, clientVars, lockVars, overlayVars, coordVars, merge >>

ChainNext ==
    \/ \E layers \in LayerLists, fill \in {Empty, Stone} : compose(layers, NewChunkSpan(fill))
    \/ ChainGenerate

ChainSpec == FixtureInit /\ [][ChainNext]_vars

\* The layers of the chain, top-most first, that decide cell i: the sparse
\* overlays that hold a block for it, and the EmptyChunk layers.
Deciding(i) ==
    { n \in 1 .. Len(chainOverlay.layers_) :
        \/ chainOverlay.layers_[n].kind = "EmptyChunk"
        \/ packKey(LocalOfIndex(i)) \in DOMAIN chainOverlay.layers_[n].blocks }

\* C33: a generated chain holds, in every cell, the block of the top-most
\* layer that writes the cell (a sparse overlay's block, Empty for an
\* EmptyChunk), lower layers showing where no higher one writes, and Empty
\* where no layer writes, whatever the buffer held before.
C33_TopMostWins ==
    chainOverlay.pc = "generated" =>
        \A i \in CellIndices :
            IF Deciding(i) = {} THEN chainOverlay.out[i] = Empty
            ELSE LET top == chainOverlay.layers_[CHOOSE n \in Deciding(i) : \A m \in Deciding(i) : n <= m]
                 IN  chainOverlay.out[i] = IF top.kind = "EmptyChunk" THEN Empty
                                    ELSE top.blocks[packKey(LocalOfIndex(i))]

\* Two sparse layers that both write (0,0,0), Grass on top of Stone, the lower
\* alone writing (1,1,1), generated into a buffer full of Stone.
C33_GrassOverStone ==
    /\ chainOverlay.pc = "generated"
    /\ Len(chainOverlay.layers_) = 2
    /\ chainOverlay.layers_[1].kind = "Stateful" /\ chainOverlay.layers_[2].kind = "Stateful"
    /\ DOMAIN chainOverlay.layers_[1].blocks = { packKey(<< 0, 0, 0 >>) }
    /\ chainOverlay.layers_[1].blocks[packKey(<< 0, 0, 0 >>)] = Grass
    /\ DOMAIN chainOverlay.layers_[2].blocks = { packKey(<< 0, 0, 0 >>), packKey(<< 1, 1, 1 >>) }
    /\ chainOverlay.layers_[2].blocks[packKey(<< 0, 0, 0 >>)] = Stone
    /\ chainOverlay.layers_[2].blocks[packKey(<< 1, 1, 1 >>)] = Stone
    /\ chainOverlay.out[LocalIndex(<< 0, 0, 0 >>)] = Grass
    /\ chainOverlay.out[LocalIndex(<< 1, 1, 1 >>)] = Stone
    /\ chainOverlay.out[LocalIndex(<< 1, 0, 0 >>)] = Empty

(***************************************************************************)
(* Chunk transforms (chunktransform.h): a MergeChunkTransform of two       *)
(* transforms applied to a chunk.                                          *)
(***************************************************************************)
\* The transforms of the model: a null pointer, EmptyChunkTransform,
\* NullChunkTransform, FillChunkTransform(Stone) and the
\* HeightmapChunkTransform of the flat-world generator.
Transforms == { "nullptr", "EmptyChunkTransform", "NullChunkTransform",
                "FillChunkTransform", "HeightmapChunkTransform" }

\* if (t) t->apply(chunk), for a chunk at the origin.
applyTransform(t, storage) ==
    CASE t = "nullptr" -> storage
      [] t = "EmptyChunkTransform" -> [i \in CellIndices |-> Empty]
      [] t = "NullChunkTransform" -> storage
      [] t = "FillChunkTransform" -> [i \in CellIndices |-> Stone]
      [] t = "HeightmapChunkTransform" -> HeightmapApply(storage, << 0, 0, 0 >>)

\* MergeChunkTransform::apply: both transforms applied to copies of the chunk,
\* then each cell of the chunk assigned from the first copy if that is not
\* Empty, else from the second if that is not Empty, else not assigned.
MergeChunkTransform_apply(first, second, storage) ==
    LET copiedChunkOne == applyTransform(first, storage)
        copiedChunkTwo == applyTransform(second, storage)
    IN  [i \in CellIndices |->
            IF copiedChunkOne[i] # Empty THEN copiedChunkOne[i]
            ELSE IF copiedChunkTwo[i] # Empty THEN copiedChunkTwo[i]
            ELSE storage[i]]

\* The chunks the merge is applied to: all Empty, all Stone, and Empty but for
\* one Grass cell.
MergeInputs ==
    { NewChunkSpan(Empty), NewChunkSpan(Stone),
      [NewChunkSpan(Empty) EXCEPT ![CHUNK_BLOCK_COUNT - 1] = Grass] }

\* first | second, and the chunk apply is called with.
MergeConstruct(first, second, storage) ==
    /\ merge.pc = "none"
    /\ merge' = [pc |-> "built", first_ |-> first, second_ |-> second,
                 storage |-> storage, input |-> storage]
    /\ UNCHANGED << serverVars, clientVars, lockVars, overlayVars, coordVars, chainOverlay >>

MergeApply ==
    /\ merge.pc = "built"
    /\ merge' = [merge EXCEPT !.pc = "applied",
                              !.storage = MergeChunkTransform_apply(merge.first_, merge.second_,
                                                                    merge.storage)]
    /\ UNCHANGED << serverVars, clientVars, lockVars, overlayVars, coordVars, chainOverlay >>

MergeNext ==
    \/ \E first, second \in Transforms, storage \in MergeInputs :
          MergeConstruct(first, second, storage)
    \/ MergeApply

MergeSpec == FixtureInit /\ [][MergeNext]_vars

\* C34 as stated: after apply, every cell of the chunk holds the output of
\* first on a copy of the input if that is not Empty, and otherwise the
\* output of second on a copy of the input (Empty when both are Empty).
C34_Original ==
    merge.pc = "applied" =>
        \A i \in CellIndices :
            merge.storage[i] =
                IF applyTransform(merge.first_, merge.input)[i] # Empty
                    THEN applyTransform(merge.first_, merge.input)[i]
                    ELSE applyTransform(merge.second_, merge.input)[i]

\* C35 as stated: the completion of every issued call is handled exactly
\* once.  A call stored in pending_calls_ still has its completion coming (the
\* server has not answered, or the event is in the queue, or a thread has
\* taken the event and is looking the call up), and the completion worker and
\* processPendingRequests never handle the same call.
C35_Original ==
    /\ \A tag \in DOMAIN pending_calls_ :
          \/ tag \in DOMAIN inflight
          \/ tag \in DOMAIN cq
          \/ worker.pc = "find" /\ worker.tag = tag
          \/ caller.pc = "poll_find" /\ caller.tag = tag
    /\ (worker.pc \in {"process", "erase"} /\ caller.pc \in {"poll_process", "poll_erase"})
          => worker.tag # caller.tag

(***************************************************************************)
(* The mutexes of Client (client.cpp): every method as the sequence of     *)
(* lock_guard scopes it enters and leaves, run by the threads that call    *)
(* it.  A std::mutex is taken only when no thread holds it.                *)
(***************************************************************************)
\* One completed call as completionThreadFunc and processPendingRequests
\* handle it: the lookup, cacheChunk, the erase from requestedChunks_, then
\* under callsMutex_ the drain of the backlog, here with one position found
\* cached, one issued and one whose issue throws.
completionLocks ==
    << << "lock", "callsMutex_" >>, << "unlock", "callsMutex_" >>,
       << "lock", "cacheMutex_" >>, << "unlock", "cacheMutex_" >>,
       << "lock", "requestedChunksMutex_" >>, << "unlock", "requestedChunksMutex_" >>,
       << "lock", "callsMutex_" >>,
       << "lock", "cacheMutex_" >>,
       << "lock", "requestedChunksMutex_" >>, << "unlock", "requestedChunksMutex_" >>,
       << "unlock", "cacheMutex_" >>,
       << "lock", "cacheMutex_" >>, << "unlock", "cacheMutex_" >>,
       << "lock", "playerMutex_" >>, << "unlock", "playerMutex_" >>,
       << "lock", "requestedChunksMutex_" >>, << "unlock", "requestedChunksMutex_" >>,
       << "unlock", "callsMutex_" >> >>

\* disconnect: getPendingRequestCount, processPendingRequests, then the three
\* scopes that clear the tables and the session token.
disconnectLocks ==
    << << "lock", "callsMutex_" >>, << "unlock", "callsMutex_" >> >>
        \o completionLocks
        \o << << "lock", "callsMutex_" >>, << "unlock", "callsMutex_" >>,
              << "lock", "requestedChunksMutex_" >>, << "unlock", "requestedChunksMutex_" >>,
              << "lock", "sessionMutex_" >>, << "unlock", "sessionMutex_" >> >>

\* The scopes of placeBlock and of updatePlayerPosition.
placeBlockLocks ==
    << << "lock", "playerMutex_" >>, << "unlock", "playerMutex_" >>,
       << "lock", "cacheMutex_" >>, << "unlock", "cacheMutex_" >> >>
updatePlayerPositionLocks ==
    << << "lock", "sessionMutex_" >>, << "unlock", "sessionMutex_" >>,
       << "lock", "sessionMutex_" >>, << "unlock", "sessionMutex_" >> >>

\* requestChunkAsync, were the check of requestedChunks_ and the check of the
\* in-flight limit to share one scope.
LockScript_oneScope(method) ==
    CASE method = "requestChunkAsync" ->
            << << "lock", "requestedChunksMutex_" >>,
               << "lock", "callsMutex_" >>, << "unlock", "callsMutex_" >>,
               << "unlock", "requestedChunksMutex_" >>,
               << "lock", "playerMutex_" >>, << "unlock", "playerMutex_" >>,
               << "lock", "callsMutex_" >>, << "unlock", "callsMutex_" >>,
               << "lock", "requestedChunksMutex_" >>, << "unlock", "requestedChunksMutex_" >> >>
      [] method = "processPendingRequests" -> completionLocks
      [] method = "completionThreadFunc" -> completionLocks
      [] method = "disconnect" -> disconnectLocks
      [] method = "placeBlock" -> placeBlockLocks
      [] method = "updatePlayerPosition" -> updatePlayerPositionLocks

\* The scopes of each method, in the order it enters and leaves them.
\* requestChunkAsync: requestedChunks_, the in-flight limit,
\* createPlayerPositionMessage, the insertion, and the erase of its catch.
LockScript(method) ==
    CASE method = "requestChunkAsync" ->
            << << "lock", "requestedChunksMutex_" >>, << "unlock", "requestedChunksMutex_" >>,
               << "lock", "callsMutex_" >>, << "unlock", "callsMutex_" >>,
               << "lock", "playerMutex_" >>, << "unlock", "playerMutex_" >>,
               << "lock", "callsMutex_" >>, << "unlock", "callsMutex_" >>,
               << "lock", "requestedChunksMutex_" >>, << "unlock", "requestedChunksMutex_" >> >>
      [] method = "processPendingRequests" -> completionLocks
      [] method = "completionThreadFunc" -> completionLocks
      [] method = "disconnect" -> disconnectLocks
      [] method = "placeBlock" -> placeBlockLocks
      [] method = "updatePlayerPosition" -> updatePlayerPositionLocks

\* The methods each thread calls.
MethodsOf(t) ==
    CASE t = "caller" -> { "requestChunkAsync", "processPendingRequests", "placeBlock",
                           "updatePlayerPosition" }
      [] t = "completion" -> { "completionThreadFunc" }
      [] t = "closer" -> { "disconnect" }

\* The mutexes thread t holds: locked by a step it has taken and not unlocked
\* by a later one.
HeldLocks(t) ==
    LET script == LockScript(locking[t].method)
        at == locking[t].at
    IN  IF at = 0 THEN {}
        ELSE { script[i][2] : i \in { j \in 1 .. (at - 1) :
                   /\ script[j][1] = "lock"
                   /\ \A k \in (j + 1) .. (at - 1) : script[k] # << "unlock", script[j][2] >> } }

\* A thread calls a method.
CallMethod(t, method) ==
    /\ locking[t].at = 0
    /\ locking' = [locking EXCEPT ![t] = [method |-> method, at |-> 1]]
    /\ UNCHANGED << serverVars, clientVars, overlayVars, coordVars, generatorVars >>

\* A thread enters or leaves the next scope of its method; it enters only
\* when no thread holds the mutex, and returns after the last scope.
LockStep(t) ==
    /\ locking[t].at > 0
    /\ LET script == LockScript(locking[t].method)
           op == script[locking[t].at]
       IN  /\ op[1] = "lock" => \A u \in LockThreads : op[2] \notin HeldLocks(u)
           /\ locking' = [locking EXCEPT ![t] =
                              IF locking[t].at = Len(script) THEN [method |-> "none", at |-> 0]
                              ELSE [locking[t] EXCEPT !.at = locking[t].at + 1]]
    /\ UNCHANGED << serverVars, clientVars, overlayVars, coordVars, generatorVars >>

LockNext ==
    \/ \E t \in LockThreads : \E method \in MethodsOf(t) : CallMethod(t, method)
    \/ \E t \in LockThreads : LockStep(t)

LockSpec == FixtureInit /\ [][LockNext]_vars

\* Thread t is about to lock a mutex that thread u holds.
WaitsFor(t, u) ==
    /\ locking[t].at > 0
    /\ LockScript(locking[t].method)[locking[t].at][1] = "lock"
    /\ LockScript(locking[t].method)[locking[t].at][2] \in HeldLocks(u)

\* The mutexes of Client, and a rank for each that every nesting of the
\* methods follows.
Mutexes == { "callsMutex_", "cacheMutex_", "requestedChunksMutex_", "playerMutex_",
            "sessionMutex_" }
NestingRank(m) ==
    CASE m = "callsMutex_" -> 1
      [] m = "cacheMutex_" -> 2
      [] m = "requestedChunksMutex_" -> 3
      [] m = "playerMutex_" -> 3
      [] m = "sessionMutex_" -> 3

\* C36: no threads of the client wait for each other's mutexes in a circle
\* (a thread that locks a mutex it holds itself included), and a thread that
\* locks a mutex holds only mutexes of lower rank, so the nesting has no
\* cycle.
C36_NoDeadlock ==
    /\ \A W \in SUBSET LockThreads :
          W # {} => \E t \in W : ~\E u \in W : WaitsFor(t, u)
    /\ \A t \in LockThreads :
          (locking[t].at > 0 /\ LockScript(locking[t].method)[locking[t].at][1] = "lock")
              => \A outer \in HeldLocks(t) :
                    NestingRank(outer) < NestingRank(LockScript(locking[t].method)[locking[t].at][2])

\* The completion thread holds three mutexes, among them the one the caller
\* waits for in requestChunkAsync.
C36_CallerWaits ==
    /\ HeldLocks("completion") = { "callsMutex_", "cacheMutex_", "requestedChunksMutex_" }
    /\ locking["caller"].method = "requestChunkAsync"
    /\ WaitsFor("caller", "completion")

(***************************************************************************)
(* Block updates as the clients see them: PlaceBlock and BreakBlock write  *)
(* and mark, GetUpdatedChunks names the marked chunks, GetChunk fetches    *)
(* them.  A handler starts while another is between its write and its     *)
(* mark; nothing evicts.                                                   *)
(***************************************************************************)
VisibleNext ==
    \/ EnsureChunksLoaded
    \/ WriteStep
    \/ \E hasPos \in BOOLEAN, pos \in QueryPositions, d \in RenderDistances :
          GetUpdatedChunks(hasPos, pos, d)
    \/ \E c \in QueryChunks : GetChunk(c)
    \/ TakeResponse

VisibleSpec == FixtureInit /\ [][VisibleNext]_vars

\* ChunkSpan(serializedData): the block of cell i after the first
\* nonempty_count entries have been stored into a storage filled with Empty.
SparseBlockAt(data, i) ==
    LET n == IF data.nonempty_count < Len(data.entries) THEN data.nonempty_count
                                                        ELSE Len(data.entries)
        hits == { k \in 1 .. n : data.entries[k][1] = i }
    IN  IF hits = {} THEN Empty
        ELSE data.entries[CHOOSE k \in hits : \A j \in hits : j <= k][2]

EvictNext ==
    \/ \E nameEmpty \in BOOLEAN, pos \in PrecisePositions : ConnectPlayer(nameEmpty, pos)
    \/ EnsureChunksLoaded
    \/ GarbageCollectChunks
    \/ TakeResponse

EvictSpec == FixtureInit /\ [][EvictNext]_vars

\* C38: no step evicts a chunk that lies within the radius of an anchor,
\* the positions of the player entities counted as anchors the way
\* ensureChunksLoaded counts them.
C38_Original ==
    [][ \A c \in DOMAIN chunks_ \ DOMAIN chunks_' : c \notin ChunksToLoad ]_vars

(***************************************************************************)
(* Eviction with a failing store: the anchors move, chunks are loaded and  *)
(* collected, and the save of any one chunk may fail.                      *)
(***************************************************************************)
CollectInit ==
    /\ Init
    /\ chunkGenerator_ = TRUE
    /\ persistence_ = TRUE
    /\ uninit = Empty

CollectNext ==
    \/ \E A \in AnchorSets : SetLoadAnchors(A)
    \/ EnsureChunksLoaded
    \/ GarbageCollectChunksPartly
    \/ TakeResponse

CollectSpec == CollectInit /\ [][CollectNext]_vars

\* C40: a garbageCollectChunks call returns normally and leaves resident
\* exactly the chunks it keeps, whichever saves fail; and every chunk it
\* evicts whose save did not fail is in the store as it was when evicted.
C40_EvictsDespiteFailure ==
    [][ (resp.op = "none" /\ resp'.op = "garbageCollectChunks")
            => /\ resp'.ok
               /\ DOMAIN chunks_' = { c \in DOMAIN chunks_ : ShouldKeep(c) }
               /\ \A c \in ChunksToUnload :
                     \/ c \in DOMAIN store' /\ store'[c] = SaveBlob(chunks_[c])
                     \/ c \in DOMAIN store /\ store'[c] = store[c]
                     \/ c \notin DOMAIN store /\ c \notin DOMAIN store'
      ]_vars

\* garbageCollectChunks has returned; a chunk whose save failed is neither
\* resident nor stored, while another chunk evicted with it is stored.
C40_FailedSaveEvicted ==
    /\ resp.op = "garbageCollectChunks"
    /\ resp.ok
    /\ \E a \in UNION AnchorSets :
          \E c1, c2 \in Sphere(toAbsoluteChunk(a)) :
              /\ c1 \in DOMAIN store
              /\ c2 \notin DOMAIN store
              /\ c1 \notin DOMAIN chunks_
              /\ c2 \notin DOMAIN chunks_

(***************************************************************************)
(* Reconnection (client.cpp 21-43).  connect() makes a new channel and     *)
(* stub, pings, and on success starts a completion thread; cq_ is a member *)
(* of Client that disconnect() has shut down and nothing makes anew.       *)
(***************************************************************************)
\* connect() on a client that disconnect() has left without a stub.
\* success: whether the ping is answered.  A completion thread that was
\* detached and still runs goes on as the completion thread.
connect(success) ==
    /\ caller.pc = "idle"
    /\ ~conn.stub_
    /\ conn' = IF success
                   THEN [conn EXCEPT !.stub_ = TRUE, !.connected_ = TRUE,
                                     !.shouldStop_ = FALSE]
                   ELSE [conn EXCEPT !.stub_ = TRUE, !.connected_ = FALSE]
    /\ worker' = IF success /\ worker.pc = "stopped" THEN WorkerIdle ELSE worker
    /\ UNCHANGED << serverVars, libraryVars, placeVars, asked, requestedChunks_, pending_calls_,
                    requestBacklog_, cachedChunks_, inflight, cq, nextTag, caller >>

\* A client that disconnects and connects again while it asks for chunks
\* that are resident on the server.
ReconnectNext ==
    \/ CallerStep
    \/ WorkerStep
    \/ \E tag \in 1 .. MaxCalls : Complete(tag, TRUE)
    \/ LifecycleStep
    \/ \E success \in BOOLEAN : connect(success)

\* The completion thread and the calling thread keep running and the server
\* answers every call.
ReconnectSpec ==
    /\ FixtureInit
    /\ [][ReconnectNext]_vars
    /\ WF_vars(WorkerStep \/ WorkerExit)
    /\ WF_vars(CallerStep)
    /\ \A tag \in 1 .. MaxCalls : WF_vars(Complete(tag, TRUE))

\* C39: once the client is connected again after a disconnect, a chunk it
\* has asked for and does not have is cached in the end, unless the client
\* is disconnected again first.
C39_Original ==
    \A pos \in ClientChunks :
        (/\ isConnected
         /\ conn.cqShutdown
         /\ caller.pc = "requested"
         /\ caller.pos = pos
         /\ pos \notin cachedChunks_) ~> (pos \in cachedChunks_ \/ ~isConnected)

=============================================================================
